---- MODULE Spec2Model ----
(***************************************************************************)
(* Model of the native activity-capture pipeline of cronus-linux:          *)
(*   - the per-folder metadata write queue of the screenshot manager       *)
(*     (screenshotManager.ts: enqueueFolderWrite, updateMetadata),         *)
(*   - the stabilizing wrapper of the tracking coordinator                 *)
(*     (trackingCoordinator.ts: createStabilizingWrapper),                 *)
(*   - the capture orchestrator (NativeLinux.initializeTracking),          *)
(*   - the Hyprland window tracker (windowTracker.ts) with the socket path *)
(*     discovery of the dependency checker.                                *)
(* Each component has its own specification over the shared variables; the *)
(* variables of the other components stay at their initial values.         *)
(***************************************************************************)
EXTENDS Integers, Sequences, FiniteSets, TLC

VARIABLES
  \* ---- screenshotManager.ts: per-folder metadata write queue
  metadataWriteQueueByFolder, \* folder -> id of the tail promise (0: no key)
  qOps,                       \* op id -> the promise chain built by enqueueFolderWrite
  qCount,                     \* number of enqueueFolderWrite calls so far
  disk,                       \* folder -> content of metadata.json (screenshots array)
  indexShape,                 \* folder -> what reading and parsing metadata.json gives
  \* ---- trackingCoordinator.ts: one wrapper made by createStabilizingWrapper
  wStart,                     \* trackerStartTime the wrapper was created with
  wNow,                       \* Date.now()
  wArrivals,                  \* ghost: the events handed to the wrapper, with their time
  wCalls,                     \* the events the wrapper handed to callback, in order
  \* ---- NativeLinux (index.ts): the capture orchestrator
  isObserving,
  windowCallback,             \* 0: null, else the session whose consumer it is
  checkCategorizationProvider, \* TRUE: a provider was set
  pEvents,                    \* event id -> the innerCallback invocation handling it
  pCount,                     \* number of innerCallback invocations so far
  pDelivered,                 \* the ids handed to the consumer, in order
  pSessions,                  \* number of startActiveWindowObserver calls so far
  pStep,                      \* ghost: what the step just taken did (reset by the next)
  \* ---- windowTracker.ts: fields of HyprlandWindowTracker
  isRunning,
  callback,                   \* 0: null, 1: the function given to start()
  eventSocket,                \* 0: null, else a socket id
  backupTimer,                \* TRUE: a handle is stored
  reconnectTimer,             \* TRUE: a handle is stored
  debounceTimer,              \* 0: null, else the timer (named by the signal that armed it)
  stabilizationTimer,         \* 0: null, else the timer (named by the signal that armed it)
  pendingCaptureReason,       \* "null" or a CaptureReason
  lastWindowAddress,          \* 0: null, else a window address
  lastWindowDetails,          \* NoDetails (null) or the details last emitted
  \* ---- the runtime: timers and sockets that exist, awaits in flight
  reconnectPending,           \* number of reconnect timeouts not yet fired or cleared
  backupPending,              \* number of backup intervals not cleared
  stabPending,                \* stabilization timeouts not yet fired or cleared
  debouncePending,            \* debounce timeouts not yet fired or cleared
  sockets,                    \* socket id -> the net.Socket made by createConnection
  resolving,                  \* caller -> connectToSocket calls awaiting the socket path
  captures,                   \* reason -> captureCurrentWindow calls awaiting hyprctl
  \* ---- dependencyChecker.ts and the compositor
  cachedHyprlandInstanceSignature, \* Undefined, 0 (null) or a signature
  envSignature,               \* process.env.HYPRLAND_INSTANCE_SIGNATURE (0: unset)
  hypr,                       \* odd: the compositor runs, instance (hypr+1)/2; even: it is down
  \* ---- history of the tracker (ghost)
  sigCount,                   \* window-switch signals of the burst in progress (0: none)
  sessEmitAddr,               \* address of the previous emission of this session (0: none)
  sinceSwitch,                \* ms that have at least passed since the last signal of the burst
  consumerAddr,               \* address of the last event the warm-up wrapper let through (0: none)
  \* ---- what the step just taken did (ghost; reset by every other step)
  lastDebounce,               \* the debounce timer that fired, and the burst length then
  lastCapture,                \* what the captureCurrentWindow that completed did
  suppressed,                 \* scheduleReconnect returned early since the timer was armed
  lastRecord,                 \* the type of the record handleEvent was just given
  \* ---- browserTracker.ts: BrowserTracker and what it reads
  bIsRunning,                 \* BrowserTracker.isRunning
  handoffFile,                \* /tmp/cronus-url-<browser>.json as a read finds it
  handoffAge,                 \* Date.now() minus the file's timestamp, in ms
  cdpEndpoint,                \* http://127.0.0.1:9222/json/list as a fetch finds it
  bLast,                      \* ghost: the enrichWithBrowserUrl call of the step just taken
  \* ---- screenshotManager.ts: ScreenshotManager and what it reads and writes
  enableOCR,                  \* settings.enableOCR
  tessdataFast,               \* /usr/share/tessdata_fast/eng.traineddata, as fs.access finds it
  today,                      \* the local date, as a day number
  dateFolders,                \* the YYYY-MM-DD folders under basePath, as day numbers
  sLast,                      \* ghost: the call of the step just taken and what it returned
  \* ---- systemEventObserver.ts: SystemEventObserver
  obsIsRunning,               \* SystemEventObserver.isRunning
  obsCallback,                \* SystemEventObserver.callback (0: null)
  dbus,                       \* the dbus-next module is loaded
  systemBus,                  \* "null" or the connection
  sessionBus,                 \* "null" or the connection
  obsStarting,                \* the await at which a start() call waits ("idle": none)
  subscriptions,              \* the bus interfaces whose signal handler is registered
  obsLast,                    \* ghost: the call of the step just taken
  obsTried,                   \* ghost: what the connectSessionBus of the step just taken found
  obsEmitted,                 \* ghost: the event the step just taken emitted
  \* ---- windowTracker.ts: handleSocketData
  buffer,                     \* HyprlandWindowTracker.buffer (characters)
  fStream,                    \* bytes the current connection has still to deliver
  fWhole,                     \* ghost: bytes the current connection has delivered
  fLines,                     \* ghost: lines handed to handleEvent on this connection
  fConn                       \* ghost: number of the current connection

qvars == <<metadataWriteQueueByFolder, qOps, qCount, disk, indexShape>>
wvars == <<wStart, wNow, wArrivals, wCalls>>
pvars == <<isObserving, windowCallback, checkCategorizationProvider, pEvents,
           pCount, pDelivered, pSessions, pStep>>

tfields == <<isRunning, callback, eventSocket, backupTimer, reconnectTimer,
             debounceTimer, stabilizationTimer, pendingCaptureReason,
             lastWindowAddress, lastWindowDetails>>
truntime == <<reconnectPending, backupPending, stabPending, debouncePending,
              sockets, resolving, captures>>
tenv == <<cachedHyprlandInstanceSignature, envSignature, hypr>>
tghost == <<sigCount, sessEmitAddr, sinceSwitch, consumerAddr>>
tstep == <<lastDebounce, lastCapture, suppressed, lastRecord>>
tvars == <<tfields, truntime, tenv, tghost, tstep>>

bvars == <<bIsRunning, handoffFile, handoffAge, cdpEndpoint, bLast>>

svars == <<enableOCR, tessdataFast, today, dateFolders, sLast>>
ofields == <<obsIsRunning, obsCallback, dbus, systemBus, sessionBus>>
ostep == <<obsLast, obsTried, obsEmitted>>
ovars == <<ofields, obsStarting, subscriptions, ostep>>
fvars == <<buffer, fStream, fWhole, fLines, fConn>>

\* What the actions of one component leave alone: the other components.
QFrame == UNCHANGED <<wvars, pvars, tvars, bvars, svars, ovars, fvars>>
WFrame == UNCHANGED <<qvars, pvars, tvars, bvars, svars, ovars, fvars>>
PFrame == UNCHANGED <<qvars, wvars, tvars, bvars, svars, ovars, fvars>>
TFrame == UNCHANGED <<qvars, wvars, pvars, bvars, svars, ovars, fvars>>
BFrame == UNCHANGED <<qvars, wvars, pvars, tvars, svars, ovars, fvars>>
SFrame == UNCHANGED <<qvars, wvars, pvars, tvars, bvars, ovars, fvars>>
OFrame == UNCHANGED <<qvars, wvars, pvars, tvars, bvars, svars, fvars>>
FFrame == UNCHANGED <<qvars, wvars, pvars, tvars, bvars, svars, ovars>>

vars == <<metadataWriteQueueByFolder, qOps, qCount, disk, indexShape,
          wStart, wNow, wArrivals, wCalls,
          isObserving, windowCallback, checkCategorizationProvider, pEvents,
          pCount, pDelivered, pSessions, pStep, tvars, bvars, svars, ovars, fvars>>

(***************************************************************************)
(* Bounds of the model.                                                    *)
(***************************************************************************)
MaxOps == 3
MaxArrivals == 3
MaxEvents == 2

\* Date folders and entry timestamps (Date.now() at the capture).
Folders == {1, 2}
Timestamps == {1, 2}
OpIds == 1..MaxOps

(***************************************************************************)
(* screenshotManager.ts: enqueueFolderWrite / updateMetadata               *)
(***************************************************************************)
NoOp == [folder |-> 0, kind |-> "none", st |-> "none", ran |-> FALSE,
         cleaned |-> FALSE, prev |-> 0, ts |-> 0, data |-> <<>>]

Settled(id) == qOps[id].st \in {"fulfilled", "rejected"}

\* metadata.screenshots.sort((a, b) => a.timestamp - b.timestamp): a stable sort.
RECURSIVE InsertByTimestamp(_, _)
InsertByTimestamp(e, s) ==
  IF s = <<>> THEN <<e>>
  ELSE IF e.timestamp < Head(s).timestamp
       THEN <<e>> \o s
       ELSE <<Head(s)>> \o InsertByTimestamp(e, Tail(s))

RECURSIVE SortByTimestamp(_)
SortByTimestamp(s) ==
  IF s = <<>> THEN <<>>
  ELSE InsertByTimestamp(s[Len(s)], SortByTimestamp(SubSeq(s, 1, Len(s) - 1)))

\* const previous = metadataWriteQueueByFolder.get(folderPath) ?? Promise.resolve()
Previous_NoLookup(f) == 0
Previous(f) == metadataWriteQueueByFolder[f]

\* previous.catch(() => {}): the outcome handed to .then(op)
CatchOutcome_NoCatch(outcome) == outcome
CatchOutcome(outcome) == "fulfilled"

\* if (metadataWriteQueueByFolder.get(folderPath) === nextWithCleanup)
IsTail_Always(id) == TRUE
IsTail(id) == metadataWriteQueueByFolder[qOps[id].folder] = id

\* The promise `previous` of op id has settled (Promise.resolve() always has).
PreviousSettled_NoWait(id) == TRUE
PreviousSettled(id) ==
  IF qOps[id].prev = 0 THEN TRUE ELSE qOps[qOps[id].prev].cleaned
PreviousOutcome(id) ==
  IF qOps[id].prev = 0 THEN "fulfilled" ELSE qOps[qOps[id].prev].st

\* enqueueFolderWrite(folderPath, op); kind "meta" is the op of updateMetadata,
\* kind "generic" any other op (it may reject).
enqueueFolderWrite(f, kind, ts) ==
  /\ qCount < MaxOps
  /\ LET id == qCount + 1 IN
     /\ qOps' = [qOps EXCEPT ![id] =
           [folder |-> f, kind |-> kind, st |-> "queued", ran |-> FALSE,
            cleaned |-> FALSE, prev |-> Previous(f), ts |-> ts, data |-> <<>>]]
     /\ metadataWriteQueueByFolder' = [metadataWriteQueueByFolder EXCEPT ![f] = id]
     /\ qCount' = id
  /\ UNCHANGED <<disk, indexShape>>
  /\ QFrame

\* .then(op): runs op once `previous` has settled; without the catch a rejection
\* of `previous` would skip op and reject `next`.
OpBegin(id) ==
  /\ qOps[id].st = "queued"
  /\ PreviousSettled(id)
  /\ IF CatchOutcome(PreviousOutcome(id)) = "fulfilled"
     THEN qOps' = [qOps EXCEPT ![id].ran = TRUE,
                 ![id].st = IF qOps[id].kind = "meta" THEN "reading" ELSE "running"]
     ELSE qOps' = [qOps EXCEPT ![id].st = "rejected"]
  /\ UNCHANGED <<metadataWriteQueueByFolder, qCount, disk, indexShape>>
  /\ QFrame

\* What `await fs.readFile` and JSON.parse give for metadata.json: "missing" (no
\* file), "unparseable" (not JSON), "no_array" (JSON without a screenshots array,
\* such as {} or null) or "index" (an object with the array disk[f]).
IndexShapes == {"missing", "unparseable", "no_array", "index"}

\* The metadata object after the inner try/catch: the parsed file, or
\* { screenshots: [] } when reading or parsing threw.
ParsedIndex(f) == IF indexShape[f] = "index" THEN disk[f] ELSE <<>>

\* metadata.screenshots.push(entry) throws when the parsed value has no array.
PushThrows(f) == indexShape[f] = "no_array"

\* updateMetadata: readFile and JSON.parse settle, the entry is pushed, the array
\* sorted, and writeFile is issued; a throw of push ends in the outer catch, which
\* logs, and the op's promise fulfils without a write.
MetaRead(id) ==
  /\ qOps[id].st = "reading"
  /\ LET f == qOps[id].folder
         entry == [timestamp |-> qOps[id].ts, filename |-> id]
     IN IF PushThrows(f)
        THEN qOps' = [qOps EXCEPT ![id].st = "fulfilled"]
        ELSE qOps' = [qOps EXCEPT ![id].st = "writing",
                        ![id].data = SortByTimestamp(Append(ParsedIndex(f), entry))]
  /\ UNCHANGED <<metadataWriteQueueByFolder, qCount, disk, indexShape>>
  /\ QFrame

\* updateMetadata: writeFile completes; the op's promise fulfils.
MetaWrite(id) ==
  /\ qOps[id].st = "writing"
  /\ disk' = [disk EXCEPT ![qOps[id].folder] = qOps[id].data]
  /\ indexShape' = [indexShape EXCEPT ![qOps[id].folder] = "index"]
  /\ qOps' = [qOps EXCEPT ![id].st = "fulfilled"]
  /\ UNCHANGED <<metadataWriteQueueByFolder, qCount>>
  /\ QFrame

\* A generic op settles: it fulfils or rejects.
OpSettle(id, ok) ==
  /\ qOps[id].st = "running"
  /\ qOps' = [qOps EXCEPT ![id].st = IF ok THEN "fulfilled" ELSE "rejected"]
  /\ UNCHANGED <<metadataWriteQueueByFolder, qCount, disk, indexShape>>
  /\ QFrame

\* next.finally(...): removes the key if this promise is still the tail, then
\* nextWithCleanup settles as next did.
OpCleanup(id) ==
  /\ Settled(id)
  /\ ~qOps[id].cleaned
  /\ metadataWriteQueueByFolder' =
       IF IsTail(id)
       THEN [metadataWriteQueueByFolder EXCEPT ![qOps[id].folder] = 0]
       ELSE metadataWriteQueueByFolder
  /\ qOps' = [qOps EXCEPT ![id].cleaned = TRUE]
  /\ UNCHANGED <<qCount, disk, indexShape>>
  /\ QFrame

QInit ==
  /\ metadataWriteQueueByFolder = [f \in Folders |-> 0]
  /\ qOps = [i \in OpIds |-> NoOp]
  /\ qCount = 0
  /\ disk = [f \in Folders |-> <<>>]
  /\ indexShape = [f \in Folders |-> "missing"]

\* An index file left by an earlier run or by another program: entries whose file
\* name (0) is none of this run's, in any order.
EarlierEntry(ts) == [timestamp |-> ts, filename |-> 0]
EarlierIndexes == {<<>>, <<EarlierEntry(1)>>, <<EarlierEntry(2), EarlierEntry(1)>>}

\* The queue is empty and every index file has some previous content.
QInitAnyIndex ==
  /\ metadataWriteQueueByFolder = [f \in Folders |-> 0]
  /\ qOps = [i \in OpIds |-> NoOp]
  /\ qCount = 0
  /\ indexShape \in [Folders -> IndexShapes]
  /\ disk \in [Folders -> EarlierIndexes]
  /\ \A f \in Folders : indexShape[f] # "index" => disk[f] = <<>>

QNext ==
  \/ \E f \in Folders, ts \in Timestamps : enqueueFolderWrite(f, "meta", ts)
  \/ \E f \in Folders : enqueueFolderWrite(f, "generic", 0)
  \/ \E id \in OpIds : OpBegin(id)
  \/ \E id \in OpIds : MetaRead(id)
  \/ \E id \in OpIds : MetaWrite(id)
  \/ \E id \in OpIds, ok \in BOOLEAN : OpSettle(id, ok)
  \/ \E id \in OpIds : OpCleanup(id)

(***************************************************************************)
(* trackingCoordinator.ts: createStabilizingWrapper                        *)
(***************************************************************************)
TRACKER_STABILIZATION_PERIOD_MS == 10000

\* trackerStartTime: number | undefined
Undefined == -1

\* The instants at which the clock is read: around the period after each start.
Times == {0, 1, 9999, 10000, 10001, 15000}
StartTimes == {Undefined, 0, 1}
EventKinds == {"window", "browser", "system", "null"}

\* The wrapper's body: TRUE when it goes on to `return callback(details)`.
WrapperPasses_FailClosed(trackerStartTime, periodMs, now) ==
  trackerStartTime # Undefined /\ now - trackerStartTime >= periodMs
WrapperPasses_Inclusive(trackerStartTime, periodMs, now) ==
  ~(trackerStartTime # Undefined /\ now - trackerStartTime <= periodMs)
WrapperPasses(trackerStartTime, periodMs, now) ==
  ~(trackerStartTime # Undefined /\ now - trackerStartTime < periodMs)

\* The clock advances.
WTick ==
  /\ \E t \in Times : t > wNow /\ wNow' = t
  /\ UNCHANGED <<wStart, wArrivals, wCalls>>
  /\ WFrame

\* wrapped(details): an event from any source is handed to the wrapper.
WrappedCall(details) ==
  /\ Len(wArrivals) < MaxArrivals
  /\ wArrivals' = Append(wArrivals, [details |-> details, at |-> wNow])
  /\ wCalls' = IF WrapperPasses(wStart, TRACKER_STABILIZATION_PERIOD_MS, wNow)
               THEN Append(wCalls, details)
               ELSE wCalls
  /\ UNCHANGED <<wStart, wNow>>
  /\ WFrame

WInit ==
  /\ wStart \in StartTimes
  /\ wNow = IF wStart = Undefined THEN 0 ELSE wStart
  /\ wArrivals = <<>>
  /\ wCalls = <<>>

WNext ==
  \/ WTick
  \/ \E details \in EventKinds : WrappedCall(details)

(***************************************************************************)
(* browserTracker.ts: BrowserTracker, in its file-based and its CDP form   *)
(***************************************************************************)
\* The hand-off file of the file-based strategy, as readFileSync finds it.
\* "complete" has a url and a timestamp; "no_url" lacks the url, "no_timestamp"
\* the timestamp.
Handoffs == {"missing", "not_json", "no_url", "no_timestamp", "complete"}
\* The ages a read can find, around the limit of getCurrentTab.
URL_MAX_AGE_MS == 15000
Ages == {5000, 15000, 15001, 20000}
\* The debugging endpoint of the CDP strategy, as fetch finds it.
Endpoints == {"absent", "timeout", "non_ok", "malformed", "no_page", "page"}
\* The details handed to enrichWithBrowserUrl, by their type.
DetailKinds == {"window", "browser", "system"}

NoEnrich == [strategy |-> "none", kind |-> "none", running |-> FALSE,
             input |-> "none", age |-> 0, result |-> "none"]

\* BrowserTracker.getCurrentTab (file-based): "null", or the tab read from the
\* file: "tab" with a url, "tab_no_url" when the JSON has no url member. A
\* missing timestamp makes the age NaN, which is not above the limit.
FileTab(running, handoff, age) ==
  IF ~running THEN "null"
  ELSE CASE handoff \in {"missing", "not_json"} -> "null"
         [] handoff = "no_timestamp" -> "tab"
         [] handoff = "no_url" ->
              IF age > URL_MAX_AGE_MS THEN "null" ELSE "tab_no_url"
         [] handoff = "complete" ->
              IF age > URL_MAX_AGE_MS THEN "null" ELSE "tab"

\* BrowserTracker.getCDPTab: "null" or the first page target.
CdpTab(endpoint) == IF endpoint = "page" THEN "tab" ELSE "null"

\* enrichWithBrowserUrl(details), given what getCurrentTab returns: "unchanged"
\* (the input), "url" (the input with url set) or "threw" (tab.url.substring on an
\* undefined url).
enrichWithBrowserUrl(kind, tab) ==
  IF kind # "browser" THEN "unchanged"
  ELSE CASE tab = "null" -> "unchanged"
         [] tab = "tab" -> "url"
         [] tab = "tab_no_url" -> "threw"

\* The results enrichWithBrowserUrl has for details of a kind.
EnrichResults(kind) ==
  {enrichWithBrowserUrl(kind, FileTab(r, h[1], h[2])) :
      r \in BOOLEAN, h \in Handoffs \X Ages}
    \cup {enrichWithBrowserUrl(kind, CdpTab(e)) : e \in Endpoints}

\* BrowserTracker.start()
BrowserStart ==
  /\ bIsRunning' = TRUE
  /\ bLast' = NoEnrich
  /\ UNCHANGED <<handoffFile, handoffAge, cdpEndpoint>>
  /\ BFrame

\* BrowserTracker.stop()
BrowserStop ==
  /\ bIsRunning' = FALSE
  /\ bLast' = NoEnrich
  /\ UNCHANGED <<handoffFile, handoffAge, cdpEndpoint>>
  /\ BFrame

\* The browser extension writes the hand-off file, or the file goes away.
HandoffChange(h) ==
  /\ h # handoffFile
  /\ handoffFile' = h
  /\ bLast' = NoEnrich
  /\ UNCHANGED <<bIsRunning, handoffAge, cdpEndpoint>>
  /\ BFrame

\* Time passes, or the extension writes a new timestamp.
HandoffAges(a) ==
  /\ a # handoffAge
  /\ handoffAge' = a
  /\ bLast' = NoEnrich
  /\ UNCHANGED <<bIsRunning, handoffFile, cdpEndpoint>>
  /\ BFrame

\* The browser's debugging endpoint comes, goes or changes its answer.
EndpointChange(e) ==
  /\ e # cdpEndpoint
  /\ cdpEndpoint' = e
  /\ bLast' = NoEnrich
  /\ UNCHANGED <<bIsRunning, handoffFile, handoffAge>>
  /\ BFrame

\* enrichWithBrowserUrl(details) of the file-based tracker.
EnrichFile(kind) ==
  /\ bLast' = [strategy |-> "file", kind |-> kind, running |-> bIsRunning,
               input |-> handoffFile, age |-> handoffAge,
               result |-> enrichWithBrowserUrl(kind,
                            FileTab(bIsRunning, handoffFile, handoffAge))]
  /\ UNCHANGED <<bIsRunning, handoffFile, handoffAge, cdpEndpoint>>
  /\ BFrame

\* enrichWithBrowserUrl(details) of the CDP tracker.
EnrichCdp(kind) ==
  /\ bLast' = [strategy |-> "cdp", kind |-> kind, running |-> bIsRunning,
               input |-> cdpEndpoint, age |-> 0,
               result |-> enrichWithBrowserUrl(kind, CdpTab(cdpEndpoint))]
  /\ UNCHANGED <<bIsRunning, handoffFile, handoffAge, cdpEndpoint>>
  /\ BFrame

BInit ==
  /\ bIsRunning = FALSE
  /\ handoffFile = "missing"
  /\ handoffAge = 5000
  /\ cdpEndpoint = "absent"
  /\ bLast = NoEnrich

BNext ==
  \/ BrowserStart
  \/ BrowserStop
  \/ \E h \in Handoffs : HandoffChange(h)
  \/ \E a \in Ages : HandoffAges(a)
  \/ \E e \in Endpoints : EndpointChange(e)
  \/ \E kind \in DetailKinds : EnrichFile(kind)
  \/ \E kind \in DetailKinds : EnrichCdp(kind)

(***************************************************************************)
(* screenshotManager.ts: captureAndOCR, resolveTessdataEnv and             *)
(* cleanupOldScreenshots                                                   *)
(***************************************************************************)
MaxDay == 11
MaxFolders == 3

\* Day numbers: day 0 is 2025-12-21, day 11 is 2026-01-01.
Days == 0..MaxDay
KeepDays == {0, 1, 3, 7}
DecemberDays == 31

GrimOutcomes == {"buffer", "fails"}
SaveOutcomes == {"ok", "mkdir_fails", "write_fails"}
MetaOutcomes == {"ok", "fails"}
TesseractOutcomes == {"text", "empty", "error", "timeout", "overflow"}
TessdataStates == {"absent", "unreadable", "readable"}

NoShot == [op |-> "none", grim |-> "none", save |-> "none", meta |-> "none",
           ocr |-> "none",
           tessdata |-> "none", env |-> "none",
           success |-> FALSE, error |-> FALSE, imagePath |-> FALSE,
           ocrText |-> "undefined", wroteImage |-> FALSE, wroteEntry |-> FALSE,
           keepDays |-> 0, before |-> {}, failed |-> {}, returned |-> 0]

\* String(n).padStart(2, '0'), as its characters.
Pad2(n) == <<n \div 10, n % 10>>

\* formatLocalDateYYYYMMDD of the date with this day number, as the characters
\* of YYYY-MM-DD without the dashes.
formatLocalDateYYYYMMDD(n) ==
  LET dec == 21 + n IN
  IF dec <= DecemberDays
  THEN <<2, 0, 2, 5>> \o Pad2(12) \o Pad2(dec)
  ELSE <<2, 0, 2, 6>> \o Pad2(1) \o Pad2(dec - DecemberDays)

\* a < b on strings of equal length.
StringLess(a, b) ==
  \E i \in 1..Len(a) :
     /\ a[i] < b[i]
     /\ \A j \in 1..(i - 1) : a[j] = b[j]

\* cleanupOldScreenshots: if (date < cutoffString)
StrictlyOlder_OrEqual(date, cutoffString) ==
  StringLess(date, cutoffString) \/ date = cutoffString
StrictlyOlder(date, cutoffString) == StringLess(date, cutoffString)

\* resolveTessdataEnv(): fs.access without a mode tests that the file is visible.
resolveTessdataEnv(tessdata) ==
  IF tessdata # "absent" THEN "tessdata_fast" ELSE "none"

\* performOCR(imagePath): the text, "empty" for '', or "undefined".
performOCR_Throws(tesseract) ==
  CASE tesseract = "text" -> "text"
    [] tesseract = "empty" -> "empty"
    [] OTHER -> "throws"
performOCR(tesseract) ==
  CASE tesseract = "text" -> "text"
    [] tesseract = "empty" -> "empty"
    [] OTHER -> "undefined"

\* setSettings({ enableOCR })
setSettings(enable) ==
  /\ enable # enableOCR
  /\ enableOCR' = enable
  /\ sLast' = NoShot
  /\ UNCHANGED <<tessdataFast, today, dateFolders>>
  /\ SFrame

\* The fast dataset is installed, removed or loses its read permission.
TessdataChange(t) ==
  /\ t # tessdataFast
  /\ tessdataFast' = t
  /\ sLast' = NoShot
  /\ UNCHANGED <<enableOCR, today, dateFolders>>
  /\ SFrame

\* Midnight passes.
DayPasses ==
  /\ today < MaxDay
  /\ today' = today + 1
  /\ sLast' = NoShot
  /\ UNCHANGED <<enableOCR, tessdataFast, dateFolders>>
  /\ SFrame

\* A call of resolveTessdataEnv().
ResolveTessdata ==
  /\ sLast' = [NoShot EXCEPT !.op = "resolve", !.tessdata = tessdataFast,
                             !.env = resolveTessdataEnv(tessdataFast)]
  /\ UNCHANGED <<enableOCR, tessdataFast, today, dateFolders>>
  /\ SFrame

\* captureAndOCR(), with what grim, saveScreenshot's mkdir and writeFile, the
\* metadata update and tesseract do. tesseract cannot load a dataset it cannot
\* read.
captureAndOCR(grim, save, meta, tesseract) ==
  /\ today \in dateFolders \/ Cardinality(dateFolders) < MaxFolders
  /\ (tessdataFast = "unreadable" => tesseract = "error")
  /\ LET captured == grim = "buffer"
         made == captured /\ save # "mkdir_fails"
         saved == captured /\ save = "ok"
         text == IF saved /\ enableOCR THEN performOCR(tesseract) ELSE "undefined"
         threw == (captured /\ ~saved) \/ text = "throws"
     IN
     /\ dateFolders' = IF made THEN dateFolders \cup {today} ELSE dateFolders
     /\ sLast' = [NoShot EXCEPT
          !.op = "capture", !.grim = grim,
          !.save = IF captured THEN save ELSE "none",
          !.meta = IF saved THEN meta ELSE "none",
          !.ocr = IF saved /\ enableOCR THEN tesseract ELSE "none",
          !.env = IF saved /\ enableOCR THEN resolveTessdataEnv(tessdataFast)
                  ELSE "none",
          !.success = saved /\ ~threw,
          !.error = ~saved \/ threw,
          !.imagePath = saved /\ ~threw,
          !.ocrText = IF threw THEN "undefined" ELSE text,
          !.wroteImage = saved,
          !.wroteEntry = saved /\ meta = "ok"]
  /\ UNCHANGED <<enableOCR, tessdataFast, today>>
  /\ SFrame

\* cleanupOldScreenshots: the folders of getAvailableDates that are to be removed.
OldFolders(keepDays) ==
  {d \in dateFolders :
     StrictlyOlder(formatLocalDateYYYYMMDD(d),
                   formatLocalDateYYYYMMDD(today - keepDays))}

\* cleanupOldScreenshots(keepDays); fs.rm fails for the folders in `failing`.
cleanupOldScreenshots(keepDays, failing) ==
  /\ failing \subseteq OldFolders(keepDays)
  /\ dateFolders' = dateFolders \ (OldFolders(keepDays) \ failing)
  /\ sLast' = [NoShot EXCEPT !.op = "cleanup", !.keepDays = keepDays,
                             !.before = dateFolders, !.failed = failing,
                             !.returned = Cardinality(OldFolders(keepDays) \ failing)]
  /\ UNCHANGED <<enableOCR, tessdataFast, today>>
  /\ SFrame

SInit ==
  /\ enableOCR = TRUE
  /\ tessdataFast = "absent"
  /\ today = 0
  /\ dateFolders = {}
  /\ sLast = NoShot

\* Captures and OCR, day after day.
ONext ==
  \/ DayPasses
  \/ \E enable \in BOOLEAN : setSettings(enable)
  \/ \E t \in TessdataStates : TessdataChange(t)
  \/ ResolveTessdata
  \/ \E grim \in GrimOutcomes, save \in SaveOutcomes, meta \in MetaOutcomes,
        tesseract \in TesseractOutcomes : captureAndOCR(grim, save, meta, tesseract)

\* Screenshots saved over the days, and their pruning.
KNext ==
  \/ DayPasses
  \/ captureAndOCR("buffer", "ok", "ok", "text")
  \/ \E keepDays \in KeepDays, failing \in SUBSET dateFolders :
        cleanupOldScreenshots(keepDays, failing)

(***************************************************************************)
(* systemEventObserver.ts: SystemEventObserver                             *)
(***************************************************************************)
SystemEventTypes == {"sleep", "wake", "lock", "unlock"}
ScreenSavers == {"freedesktop", "gnome"}

NoSystemEvent ==
  [signal |-> "none", calledBack |-> FALSE,
   event |-> [windowId |-> -1, ownerName |-> "", type |-> "", title |-> "",
              captureReason |-> "", durationMs |-> -1]]
NoTry ==
  [made |-> FALSE, bus |-> FALSE, freedesktop |-> FALSE, gnome |-> FALSE,
   subscribed |-> {}]

\* No signal arrived and connectSessionBus did not run in this step.
OStepReset == obsTried' = NoTry /\ obsEmitted' = NoSystemEvent

ownerNameMap(eventType) ==
  CASE eventType = "sleep" -> "System Sleep"
    [] eventType = "wake" -> "System Wake"
    [] eventType = "lock" -> "System Lock"
    [] eventType = "unlock" -> "System Unlock"

titleMap(eventType) ==
  CASE eventType = "sleep" -> "Computer going to sleep"
    [] eventType = "wake" -> "Computer woke from sleep"
    [] eventType = "lock" -> "Screen was locked"
    [] eventType = "unlock" -> "Screen was unlocked"

captureReasonMap_PerType(eventType) ==
  CASE eventType = "sleep" -> "system_sleep"
    [] eventType = "wake" -> "system_wake"
    [] eventType = "lock" -> "system_lock"
    [] eventType = "unlock" -> "system_unlock"

captureReasonMap(eventType) ==
  CASE eventType = "sleep" -> "system_sleep"
    [] eventType = "wake" -> "system_wake"
    [] eventType = "lock" -> "system_sleep"
    [] eventType = "unlock" -> "system_wake"

\* The event emitSystemEvent(eventType) builds (its timestamp left out).
SystemEvent(eventType) ==
  [windowId |-> 0, ownerName |-> ownerNameMap(eventType), type |-> "system",
   title |-> titleMap(eventType), captureReason |-> captureReasonMap(eventType),
   durationMs |-> 0]

\* connectSessionBus: the freedesktop interface is tried first and its success
\* returns; the GNOME interface is tried in the catch of the first.
ScreenSaverTried_NoReturn(freedesktop, gnome) ==
  (IF freedesktop THEN {"freedesktop"} ELSE {}) \cup (IF gnome THEN {"gnome"} ELSE {})

ScreenSaverTried(freedesktop, gnome) ==
  IF freedesktop THEN {"freedesktop"}
  ELSE IF gnome THEN {"gnome"}
  ELSE {}

\* start(callback) up to its first await; a call while running returns at once.
ObserverStart ==
  /\ obsStarting = "idle"
  /\ IF obsIsRunning
     THEN UNCHANGED <<obsIsRunning, obsCallback, obsStarting>>
     ELSE /\ obsCallback' = 1
          /\ obsIsRunning' = TRUE
          /\ obsStarting' = "import"
  /\ obsLast' = "start"
  /\ OStepReset
  /\ UNCHANGED <<dbus, systemBus, sessionBus, subscriptions>>
  /\ OFrame

\* start: await import('dbus-next') settles; a failure ends start in its catch,
\* which does not rethrow.
ObserverImport(ok) ==
  /\ obsStarting = "import"
  /\ dbus' = (dbus \/ ok)
  /\ obsStarting' = IF ok THEN "system" ELSE "idle"
  /\ obsLast' = IF ok THEN "none" ELSE "start_resolved"
  /\ OStepReset
  /\ UNCHANGED <<obsIsRunning, obsCallback, systemBus, sessionBus, subscriptions>>
  /\ OFrame

\* connectSystemBus(): this.systemBus = this.dbus.systemBus(), unless that throws;
\* then the PrepareForSleep handler is registered, unless the login manager
\* cannot be reached. Either failure ends in the function's own catch.
ObserverConnectSystem(ok, login1) ==
  /\ obsStarting = "system"
  /\ systemBus' = IF ok THEN "connected" ELSE systemBus
  /\ subscriptions' = IF ok /\ login1 THEN subscriptions \cup {"login1"}
                      ELSE subscriptions
  /\ obsStarting' = "session"
  /\ obsLast' = "none"
  /\ OStepReset
  /\ UNCHANGED <<obsIsRunning, obsCallback, dbus, sessionBus>>
  /\ OFrame

\* connectSessionBus(): this.sessionBus = this.dbus.sessionBus(), unless that throws;
\* then the ActiveChanged handler of a screen saver interface is registered.
\* Every failure ends in a catch of the function, and start returns.
ObserverConnectSession(ok, freedesktop, gnome) ==
  /\ obsStarting = "session"
  /\ sessionBus' = IF ok THEN "connected" ELSE sessionBus
  /\ subscriptions' = IF ok THEN subscriptions \cup ScreenSaverTried(freedesktop, gnome)
                      ELSE subscriptions
  /\ obsStarting' = "idle"
  /\ obsLast' = "start_resolved"
  /\ obsTried' = [made |-> TRUE, bus |-> ok, freedesktop |-> freedesktop,
                  gnome |-> gnome,
                  subscribed |-> IF ok THEN ScreenSaverTried(freedesktop, gnome)
                                 ELSE {}]
  /\ obsEmitted' = NoSystemEvent
  /\ UNCHANGED <<obsIsRunning, obsCallback, dbus, systemBus>>
  /\ OFrame

\* stop(): a bus the field holds is disconnected, which ends its subscriptions.
ObserverStop ==
  /\ obsIsRunning' = FALSE
  /\ systemBus' = "null"
  /\ sessionBus' = "null"
  /\ subscriptions' = {i \in subscriptions :
                         IF i = "login1" THEN systemBus = "null"
                         ELSE sessionBus = "null"}
  /\ obsCallback' = 0
  /\ obsLast' = IF obsIsRunning THEN "stop" ELSE "stop_again"
  /\ OStepReset
  /\ UNCHANGED <<dbus, obsStarting>>
  /\ OFrame

\* emitSystemEvent(eventType): the event is handed to the callback, if there is one.
emitSystemEvent(eventType) ==
  /\ obsEmitted' = [signal |-> eventType, calledBack |-> obsCallback # 0,
                    event |-> SystemEvent(eventType)]
  /\ obsLast' = "none"
  /\ obsTried' = NoTry
  /\ UNCHANGED <<ofields, obsStarting, subscriptions>>
  /\ OFrame

\* The login manager signals PrepareForSleep(sleeping).
PrepareForSleep(sleeping) ==
  /\ "login1" \in subscriptions
  /\ emitSystemEvent(IF sleeping THEN "sleep" ELSE "wake")

\* The subscribed screen saver interface signals ActiveChanged(active).
ActiveChanged(interface, active) ==
  /\ interface \in subscriptions
  /\ emitSystemEvent(IF active THEN "lock" ELSE "unlock")

OInit ==
  /\ obsIsRunning = FALSE
  /\ obsCallback = 0
  /\ dbus = FALSE
  /\ systemBus = "null"
  /\ sessionBus = "null"
  /\ obsStarting = "idle"
  /\ subscriptions = {}
  /\ obsLast = "none"
  /\ obsTried = NoTry
  /\ obsEmitted = NoSystemEvent

\* The system event observer: its start, its stop and the bus signals.
VNext ==
  \/ ObserverStart
  \/ \E ok \in BOOLEAN : ObserverImport(ok)
  \/ \E ok \in BOOLEAN, login1 \in BOOLEAN : ObserverConnectSystem(ok, login1)
  \/ \E ok \in BOOLEAN, freedesktop \in BOOLEAN, gnome \in BOOLEAN :
        ObserverConnectSession(ok, freedesktop, gnome)
  \/ ObserverStop
  \/ \E sleeping \in BOOLEAN : PrepareForSleep(sleeping)
  \/ \E interface \in ScreenSavers, active \in BOOLEAN : ActiveChanged(interface, active)

(***************************************************************************)
(* NativeLinux.initializeTracking: innerCallback, and start/stop           *)
(***************************************************************************)
MaxSessions == 2

EventIds == 1..MaxEvents

\* What the already-known provider answers, and what captureAndOCR returns.
ProviderAnswers == {"categorized_content", "categorized_nocontent",
                    "not_categorized", "throws"}
OcrResults == {"text", "no_text", "error"}

NoEvent == [kind |-> "none", pc |-> "none", stale |-> FALSE, url |-> FALSE]
NoPStep == [id |-> 0, op |-> "none", input |-> "none", details |-> "none",
            content |-> "null", contentSource |-> "null",
            localScreenshotPath |-> FALSE, ocrRan |-> FALSE]

\* innerCallback: if (details)
HasDetails_Always(kind) == TRUE
HasDetails(kind) == kind # "null"

\* innerCallback: if (ocrResult.success && ocrResult.ocrText)
OcrGivesContent_Always(result) == TRUE
OcrGivesContent(result) == result = "text"

\* innerCallback: if (details.type === 'browser' && details.browser)
NeedsEnrichment_Always(kind) == TRUE
NeedsEnrichment(kind) == kind = "browser"

\* innerCallback: if (checkResult.isCategorized && checkResult.content != null)
Reuses_Never(answer) == FALSE
Reuses_Answered(answer) == answer # "throws"
Reuses(answer) == answer = "categorized_content"

\* innerCallback: contentSource of the details built from the provider's content
\* and from the OCR text.
ReusedSource == "ocr"
FreshSource == "ocr"

\* innerCallback from JSON.stringify on: the details (null: the "null" event) are
\* handed to this.windowCallback; with windowCallback null the call throws inside
\* try, throws again in its catch, and the async function rejects.
Deliver(id, op, input, content, contentSource, path, ocrRan) ==
  /\ pStep' = [id |-> id, op |-> op, input |-> input,
               details |-> IF windowCallback = 0 THEN "none" ELSE "details",
               content |-> content, contentSource |-> contentSource,
               localScreenshotPath |-> path, ocrRan |-> ocrRan]
  /\ IF windowCallback # 0
     THEN /\ pDelivered' = Append(pDelivered, id)
          /\ pEvents' = [pEvents EXCEPT ![id].pc = "delivered"]
     ELSE /\ pDelivered' = pDelivered
          /\ pEvents' = [pEvents EXCEPT ![id].pc = "rejected"]

\* A step that delivers nothing.
Advance(id, op, input, pc) ==
  /\ pStep' = [NoPStep EXCEPT !.id = id, !.op = op, !.input = input]
  /\ pEvents' = [pEvents EXCEPT ![id].pc = pc]
  /\ pDelivered' = pDelivered

\* startActiveWindowObserver(callback): stops first when observing. The events
\* still being processed were captured by an earlier session: they are stale.
startActiveWindowObserver ==
  /\ pSessions < MaxSessions
  /\ pSessions' = pSessions + 1
  /\ windowCallback' = pSessions + 1
  /\ isObserving' = TRUE
  /\ pEvents' = [i \in EventIds |->
                   IF pEvents[i].pc \in {"enrich", "permissions", "provider", "ocr"}
                   THEN [pEvents[i] EXCEPT !.stale = TRUE] ELSE pEvents[i]]
  /\ pStep' = NoPStep
  /\ UNCHANGED <<checkCategorizationProvider, pCount, pDelivered>>
  /\ PFrame

stopActiveWindowObserver ==
  /\ isObserving' = FALSE
  /\ windowCallback' = 0
  /\ pStep' = NoPStep
  /\ UNCHANGED <<checkCategorizationProvider, pEvents, pCount, pDelivered, pSessions>>
  /\ PFrame

\* innerCallback(details) up to its first await; the event was captured by the
\* session that is current.
innerCallback(kind) ==
  /\ pCount < MaxEvents
  /\ pSessions > 0
  /\ pCount' = pCount + 1
  /\ LET id == pCount + 1
         ev == [kind |-> kind, pc |-> "none", stale |-> FALSE, url |-> FALSE]
     IN
     IF ~isObserving \/ windowCallback = 0
     THEN /\ pEvents' = [pEvents EXCEPT ![id] = [ev EXCEPT !.pc = "dropped"]]
          /\ pDelivered' = pDelivered
          /\ pStep' = [NoPStep EXCEPT !.id = id, !.op = "enter"]
     ELSE IF ~HasDetails(kind)
     THEN /\ pDelivered' = Append(pDelivered, id)
          /\ pEvents' = [pEvents EXCEPT ![id] = [ev EXCEPT !.pc = "delivered"]]
          /\ pStep' = [NoPStep EXCEPT !.id = id, !.op = "enter", !.details = "null"]
     ELSE /\ pEvents' = [pEvents EXCEPT ![id] =
                 [ev EXCEPT !.pc = IF NeedsEnrichment(kind) THEN "enrich"
                                   ELSE "permissions"]]
          /\ pDelivered' = pDelivered
          /\ pStep' = [NoPStep EXCEPT !.id = id, !.op = "enter"]
  /\ UNCHANGED <<isObserving, windowCallback, checkCategorizationProvider, pSessions>>
  /\ PFrame

\* await browserTracker.enrichWithBrowserUrl(details) settles with one of the
\* results the function has for the event; it is awaited outside any try, so a
\* throw rejects innerCallback.
EnrichDone(id, result) ==
  /\ pEvents[id].pc = "enrich"
  /\ result \in EnrichResults(pEvents[id].kind)
  /\ pEvents' = [pEvents EXCEPT
       ![id].pc = IF result = "threw" THEN "threw" ELSE "permissions",
       ![id].url = (result = "url")]
  /\ pStep' = [NoPStep EXCEPT !.id = id, !.op = "enrich", !.input = result]
  /\ UNCHANGED <<isObserving, windowCallback, checkCategorizationProvider,
                 pCount, pDelivered, pSessions>>
  /\ PFrame

\* await hasPermissionsForContentExtraction() resolves.
PermissionsDone(id, has) ==
  /\ pEvents[id].pc = "permissions"
  /\ IF has
     THEN Advance(id, "permissions", "granted",
                  IF checkCategorizationProvider THEN "provider" ELSE "ocr")
     ELSE Deliver(id, "permissions", "missing", "null", "null", FALSE, FALSE)
  /\ UNCHANGED <<isObserving, windowCallback, checkCategorizationProvider, pCount,
                 pSessions>>
  /\ PFrame

\* await this.checkCategorizationProvider(...) settles.
ProviderDone(id, answer) ==
  /\ pEvents[id].pc = "provider"
  /\ IF Reuses(answer)
     THEN Deliver(id, "provider", answer, "provider", ReusedSource, FALSE, FALSE)
     ELSE Advance(id, "provider", answer, "ocr")
  /\ UNCHANGED <<isObserving, windowCallback, checkCategorizationProvider, pCount,
                 pSessions>>
  /\ PFrame

\* await screenshotManager.captureAndOCR() resolves.
OcrDone(id, result) ==
  /\ pEvents[id].pc = "ocr"
  /\ IF OcrGivesContent(result)
     THEN Deliver(id, "ocr", result, "ocr", FreshSource, TRUE, TRUE)
     ELSE Deliver(id, "ocr", result, "null", "null", FALSE, TRUE)
  /\ UNCHANGED <<isObserving, windowCallback, checkCategorizationProvider, pCount,
                 pSessions>>
  /\ PFrame

PInit ==
  /\ isObserving = FALSE
  /\ windowCallback = 0
  /\ checkCategorizationProvider \in BOOLEAN
  /\ pEvents = [i \in EventIds |-> NoEvent]
  /\ pCount = 0
  /\ pDelivered = <<>>
  /\ pSessions = 0
  /\ pStep = NoPStep

PNext ==
  \/ startActiveWindowObserver
  \/ stopActiveWindowObserver
  \/ \E kind \in EventKinds : innerCallback(kind)
  \/ \E id \in EventIds, result \in {"unchanged", "url", "threw"} :
        EnrichDone(id, result)
  \/ \E id \in EventIds, has \in BOOLEAN : PermissionsDone(id, has)
  \/ \E id \in EventIds, answer \in ProviderAnswers : ProviderDone(id, answer)
  \/ \E id \in EventIds, result \in OcrResults : OcrDone(id, result)

(***************************************************************************)
(* windowTracker.ts: HyprlandWindowTracker, with the socket path discovery *)
(* of dependencyChecker.ts and the compositor it talks to                  *)
(***************************************************************************)
MaxInFlight == 1
MaxBurst == 2
MaxHypr == 3

SockIds == {1, 2}
Windows == {1, 2}
STABILIZATION_DELAY_MS == 100
DEBOUNCE_DELAY_MS == 10000
PERIODIC_BACKUP_INTERVAL_MS == 300000
HYPRCTL_TIMEOUT_MS == 5000

Callers == {"start", "reconnect"}
Reasons == {"initial", "app_switch", "periodic_backup"}

NoDetails == [address |-> 0, captureReason |-> "none"]
NoSocket == [st |-> "free", sig |-> 0, settled |-> FALSE, waiter |-> "none"]
NoCapture == [reason |-> "none", answer |-> 0, prev |-> 0, emitted |-> FALSE,
              calledWith |-> "none"]
NoDebounce == [sig |-> 0, len |-> 0, elapsed |-> 0]

\* A step that is no debounce firing and no capture completion (and, when
\* `all`, calls no scheduleReconnect) leaves no record of one.
StepReset(all) ==
  /\ lastDebounce' = NoDebounce
  /\ lastCapture' = NoCapture
  /\ all => suppressed' = FALSE

NoStep(all) ==
  /\ StepReset(all)
  /\ lastRecord' = "none"

\* The records of the event socket, by the text before '>>'; "no_separator" is a
\* line without '>>'.
RecordTypes == {"activewindow", "activewindowv2", "workspace", "closewindow",
                "unknown", "no_separator"}

\* handleEvent: case 'activewindow'
IsWindowActivation_Prefix(eventType) ==
  eventType \in {"activewindow", "activewindowv2"}
IsWindowActivation(eventType) == eventType = "activewindow"

\* The instance signature of the running compositor (0: none runs).
HyprSig == IF hypr % 2 = 1 THEN (hypr + 1) \div 2 ELSE 0

InFlight == captures["initial"] + captures["app_switch"] + captures["periodic_backup"]

\* discoverHyprlandInstanceSignature: if (cachedHyprlandInstanceSignature !== undefined)
CacheHit == cachedHyprlandInstanceSignature # Undefined

\* discoverHyprlandInstanceSignature: the signature returned (0: null) and the
\* cache it leaves; the scan of the runtime directories finds the socket of the
\* running compositor, if one runs.
discoverHyprlandInstanceSignature ==
  IF CacheHit
  THEN [sig |-> cachedHyprlandInstanceSignature,
        cache |-> cachedHyprlandInstanceSignature]
  ELSE IF envSignature # 0
  THEN [sig |-> envSignature, cache |-> envSignature]
  ELSE [sig |-> HyprSig, cache |-> HyprSig]

\* scheduleReconnect: if (this.reconnectTimer) return
AlreadyPending_NoGuard == FALSE
AlreadyPending == reconnectTimer

\* scheduleReconnect(), when `call` says this step calls it.
scheduleReconnect(call) ==
  IF call /\ ~AlreadyPending
  THEN /\ reconnectTimer' = TRUE
       /\ reconnectPending' = reconnectPending + 1
       /\ suppressed' = FALSE
  ELSE /\ UNCHANGED <<reconnectTimer, reconnectPending>>
       /\ suppressed' = call

\* start() after `await this.connectToSocket()`, when `run` says this step resumes
\* it: startPeriodicBackup() and the call of captureCurrentWindow('initial').
ContinueStart(run) ==
  IF run
  THEN /\ backupTimer' = TRUE
       /\ backupPending' = (IF backupTimer THEN backupPending - 1 ELSE backupPending) + 1
       /\ captures' = [captures EXCEPT !["initial"] = @ + 1]
  ELSE UNCHANGED <<backupTimer, backupPending, captures>>

\* captureReason: reason === 'periodic_backup' ? 'periodic_backup' : 'app_switch'
CaptureTag_Verbatim(reason) == reason
CaptureTag(reason) ==
  IF reason = "periodic_backup" THEN "periodic_backup" ELSE "app_switch"

\* captureCurrentWindow: window.address === this.lastWindowAddress
SameAsLast_Inverted(address) == address # lastWindowAddress
SameAsLast(address) == address = lastWindowAddress

\* handleWindowSwitch: if (this.debounceTimer) { clearTimeout(...) }
SwitchClearsStabilization_Forgotten == stabPending
SwitchClearsStabilization == stabPending \ {stabilizationTimer}

SwitchClearsDebounce_Forgotten == debouncePending
SwitchClearsDebounce == debouncePending \ {debounceTimer}

\* The socket a new connection uses: a slot no live socket occupies.
FreeSock(s) == sockets[s].st = "free"
NewSock == CHOOSE s \in SockIds : FreeSock(s) /\ \A r \in SockIds : FreeSock(r) => s <= r

\* start(callback) up to `await getHyprlandSocketPathAsync()` in connectToSocket.
start ==
  /\ ~isRunning
  /\ ~resolving["start"]
  /\ callback' = 1
  /\ isRunning' = TRUE
  /\ resolving' = [resolving EXCEPT !["start"] = TRUE]
  /\ UNCHANGED <<eventSocket, backupTimer, reconnectTimer, debounceTimer,
                 stabilizationTimer, pendingCaptureReason, lastWindowAddress,
                 lastWindowDetails>>
  /\ UNCHANGED <<reconnectPending, backupPending, stabPending, debouncePending,
                 sockets, captures>>
  /\ UNCHANGED <<tenv, tghost>>
  /\ NoStep(TRUE)
  /\ TFrame

\* stop: if (this.backupTimer) { clearInterval(this.backupTimer) }, and the same
\* for the reconnect timeout: the number of pending timers it leaves.
Cleared_Unguarded(timer, pending) == pending - 1
Cleared(timer, pending) == IF timer THEN pending - 1 ELSE pending

\* stop()
stop ==
  /\ isRunning' = FALSE
  /\ sockets' = IF eventSocket # 0
               THEN [sockets EXCEPT ![eventSocket].st =
                       IF @ \in {"connecting", "open"} THEN "closing" ELSE @]
               ELSE sockets
  /\ eventSocket' = 0
  /\ backupPending' = Cleared(backupTimer, backupPending)
  /\ backupTimer' = FALSE
  /\ reconnectPending' = Cleared(reconnectTimer, reconnectPending)
  /\ reconnectTimer' = FALSE
  /\ debouncePending' = debouncePending \ {debounceTimer}
  /\ debounceTimer' = 0
  /\ stabPending' = stabPending \ {stabilizationTimer}
  /\ stabilizationTimer' = 0
  /\ callback' = 0
  /\ lastWindowAddress' = 0
  /\ lastWindowDetails' = NoDetails
  /\ pendingCaptureReason' = "null"
  /\ sigCount' = 0
  /\ sessEmitAddr' = 0
  /\ sinceSwitch' = 0
  /\ consumerAddr' = 0
  /\ UNCHANGED <<resolving, captures, tenv>>
  /\ NoStep(TRUE)
  /\ TFrame

\* connectToSocket after `await getHyprlandSocketPathAsync()`: no path (error
\* emitted, reconnect scheduled, the caller resumes) or net.createConnection.
connectToSocket(caller) ==
  /\ resolving[caller]
  /\ resolving' = [resolving EXCEPT ![caller] = FALSE]
  /\ LET found == discoverHyprlandInstanceSignature IN
     /\ cachedHyprlandInstanceSignature' = found.cache
     /\ IF found.sig = 0
        THEN /\ caller = "start" => InFlight < MaxInFlight
             /\ scheduleReconnect(TRUE)
             /\ ContinueStart(caller = "start")
             /\ UNCHANGED <<sockets, eventSocket>>
        ELSE /\ \E s \in SockIds : FreeSock(s)
             /\ sockets' = [sockets EXCEPT ![NewSock] =
                   [st |-> "connecting", sig |-> found.sig, settled |-> FALSE,
                    waiter |-> caller]]
             /\ eventSocket' = NewSock
             /\ scheduleReconnect(FALSE)
             /\ ContinueStart(FALSE)
  /\ UNCHANGED <<isRunning, callback, debounceTimer, stabilizationTimer,
                 pendingCaptureReason, lastWindowAddress, lastWindowDetails>>
  /\ UNCHANGED <<stabPending, debouncePending>>
  /\ UNCHANGED <<envSignature, hypr>>
  /\ UNCHANGED tghost
  /\ NoStep(FALSE)
  /\ TFrame

\* What a socket event leaves alone.
SocketFrame ==
  /\ UNCHANGED <<isRunning, callback, eventSocket, debounceTimer, stabilizationTimer,
                 pendingCaptureReason, lastWindowAddress, lastWindowDetails>>
  /\ UNCHANGED <<stabPending, debouncePending, resolving>>
  /\ UNCHANGED <<tenv, tghost>>
  /\ NoStep(FALSE)
  /\ TFrame

\* The awaiting start() resumes when this event settles the connect promise.
Resumes(s) == ~sockets[s].settled /\ sockets[s].waiter = "start"

\* eventSocket.on('connect')
SocketConnect(s) ==
  /\ sockets[s].st = "connecting"
  /\ HyprSig = sockets[s].sig
  /\ Resumes(s) => InFlight < MaxInFlight
  /\ sockets' = [sockets EXCEPT ![s].st = "open", ![s].settled = TRUE,
                                ![s].waiter = "none"]
  /\ ContinueStart(Resumes(s))
  /\ scheduleReconnect(FALSE)
  /\ SocketFrame

\* eventSocket.on('error'): the connection attempt fails; 'close' follows.
SocketError(s) ==
  /\ sockets[s].st = "connecting"
  /\ HyprSig # sockets[s].sig
  /\ Resumes(s) => InFlight < MaxInFlight
  /\ sockets' = [sockets EXCEPT ![s].st = "errored", ![s].settled = TRUE,
                                ![s].waiter = "none"]
  /\ ContinueStart(Resumes(s))
  /\ scheduleReconnect(isRunning)
  /\ SocketFrame

\* eventSocket.on('close'): after an error, after destroy(), or the compositor
\* went away.
SocketClose(s) ==
  /\ \/ sockets[s].st \in {"errored", "closing"}
     \/ sockets[s].st = "open" /\ HyprSig # sockets[s].sig
  /\ Resumes(s) => InFlight < MaxInFlight
  /\ sockets' = [sockets EXCEPT ![s] = NoSocket]
  /\ ContinueStart(Resumes(s))
  /\ scheduleReconnect(isRunning)
  /\ SocketFrame

\* The reconnect timeout fires.
ReconnectFire ==
  /\ reconnectPending > 0
  /\ isRunning => ~resolving["reconnect"]
  /\ reconnectPending' = reconnectPending - 1
  /\ reconnectTimer' = FALSE
  /\ resolving' = IF isRunning THEN [resolving EXCEPT !["reconnect"] = TRUE]
                  ELSE resolving
  /\ UNCHANGED <<isRunning, callback, eventSocket, backupTimer, debounceTimer,
                 stabilizationTimer, pendingCaptureReason, lastWindowAddress,
                 lastWindowDetails>>
  /\ UNCHANGED <<backupPending, stabPending, debouncePending, sockets, captures>>
  /\ UNCHANGED <<tenv, tghost>>
  /\ NoStep(TRUE)
  /\ TFrame

\* eventSocket.on('data') with one activewindow line: handleSocketData,
\* handleEvent, handleWindowSwitch.
handleWindowSwitch(s) ==
  /\ sockets[s].st = "open"
  /\ sigCount < MaxBurst
  /\ stabPending' = SwitchClearsStabilization \cup {sigCount + 1}
  /\ stabilizationTimer' = sigCount + 1
  /\ debouncePending' = SwitchClearsDebounce
  /\ debounceTimer' = 0
  /\ pendingCaptureReason' = "app_switch"
  /\ sigCount' = sigCount + 1
  /\ sinceSwitch' = 0
  /\ UNCHANGED <<isRunning, callback, eventSocket, backupTimer, reconnectTimer,
                 lastWindowAddress, lastWindowDetails>>
  /\ UNCHANGED <<reconnectPending, backupPending, sockets, resolving, captures>>
  /\ UNCHANGED <<tenv, sessEmitAddr, consumerAddr>>
  /\ StepReset(TRUE)
  /\ TFrame

\* handleEvent(event) for a record read from socket s.
handleEvent(s, eventType) ==
  /\ lastRecord' = eventType
  /\ IF IsWindowActivation(eventType)
     THEN handleWindowSwitch(s)
     ELSE /\ sockets[s].st = "open"
          /\ UNCHANGED <<tfields, truntime, tenv, tghost>>
          /\ StepReset(TRUE)
          /\ TFrame

\* The first statement of the stabilization callback: this.stabilizationTimer = null.
StabilizationHandleAfterFire_Kept(k) == k
StabilizationHandleAfterFire(k) == 0

\* The stabilization timeout armed by signal k fires: it arms the debounce.
StabilizationFire(k) ==
  /\ k \in stabPending
  /\ stabPending' = stabPending \ {k}
  /\ stabilizationTimer' = StabilizationHandleAfterFire(k)
  /\ debouncePending' = debouncePending \cup {k}
  /\ debounceTimer' = k
  /\ UNCHANGED <<isRunning, callback, eventSocket, backupTimer, reconnectTimer,
                 pendingCaptureReason, lastWindowAddress, lastWindowDetails>>
  /\ UNCHANGED <<reconnectPending, backupPending, sockets, resolving, captures>>
  /\ sinceSwitch' = IF k = sigCount /\ sinceSwitch < STABILIZATION_DELAY_MS
                    THEN STABILIZATION_DELAY_MS
                    ELSE sinceSwitch
  /\ UNCHANGED <<tenv, sigCount, sessEmitAddr, consumerAddr>>
  /\ NoStep(TRUE)
  /\ TFrame

\* The debounce timeout armed after signal k fires: captureCurrentWindow(reason)
\* is called (a null reason is captured like 'app_switch').
DebounceFire(k) ==
  /\ k \in debouncePending
  /\ InFlight < MaxInFlight
  /\ debouncePending' = debouncePending \ {k}
  /\ debounceTimer' = 0
  /\ pendingCaptureReason' = "null"
  /\ captures' = [captures EXCEPT !["app_switch"] = @ + 1]
  /\ lastDebounce' = [sig |-> k, len |-> sigCount,
                      elapsed |-> IF k = sigCount
                                  THEN sinceSwitch + DEBOUNCE_DELAY_MS
                                  ELSE sinceSwitch]
  /\ sigCount' = IF k = sigCount THEN 0 ELSE sigCount
  /\ sinceSwitch' = IF k = sigCount THEN 0 ELSE sinceSwitch
  /\ UNCHANGED <<isRunning, callback, eventSocket, backupTimer, reconnectTimer,
                 stabilizationTimer, lastWindowAddress, lastWindowDetails>>
  /\ UNCHANGED <<reconnectPending, backupPending, stabPending, sockets, resolving>>
  /\ UNCHANGED <<tenv, sessEmitAddr, consumerAddr>>
  /\ lastCapture' = NoCapture
  /\ suppressed' = FALSE
  /\ lastRecord' = "none"
  /\ TFrame

\* The periodic backup interval fires: captureCurrentWindow('periodic_backup').
BackupFire ==
  /\ backupPending > 0
  /\ InFlight < MaxInFlight
  /\ captures' = [captures EXCEPT !["periodic_backup"] = @ + 1]
  /\ UNCHANGED tfields
  /\ UNCHANGED <<reconnectPending, backupPending, stabPending, debouncePending,
                 sockets, resolving>>
  /\ UNCHANGED <<tenv, tghost>>
  /\ NoStep(TRUE)
  /\ TFrame

\* The time since start() at which a capture hands its event to the callback: the
\* start-time capture after the hyprctl query, which takes at most its timeout; a
\* debounced capture no earlier than the two delays after a signal; a periodic
\* capture no earlier than the first interval.
ElapsedAt(reason) ==
  CASE reason = "initial" -> HYPRCTL_TIMEOUT_MS
    [] reason = "app_switch" -> STABILIZATION_DELAY_MS + DEBOUNCE_DELAY_MS
    [] reason = "periodic_backup" -> PERIODIC_BACKUP_INTERVAL_MS

\* The callback given to start() is the warm-up wrapper created with
\* trackerStartTime at the start: TRUE when it hands the event on.
PastWarmup(reason) ==
  WrapperPasses(0, TRACKER_STABILIZATION_PERIOD_MS, ElapsedAt(reason))

\* captureCurrentWindow(reason) after `await execFileAsync('hyprctl', ...)`: the
\* query reported the window with address w, or (w = 0) it failed.
captureCurrentWindow(reason, w) ==
  /\ captures[reason] > 0
  /\ w # 0 => HyprSig # 0
  /\ captures' = [captures EXCEPT ![reason] = @ - 1]
  /\ IF w # 0 /\ reason = "periodic_backup" /\ SameAsLast(w)
     THEN /\ lastCapture' = [NoCapture EXCEPT !.reason = reason, !.answer = w,
                              !.prev = sessEmitAddr]
          /\ UNCHANGED <<lastWindowAddress, lastWindowDetails, sessEmitAddr,
                         consumerAddr>>
     ELSE IF w # 0
     THEN /\ lastWindowAddress' = w
          /\ lastWindowDetails' = [address |-> w, captureReason |-> CaptureTag(reason)]
          /\ lastCapture' = [reason |-> reason, answer |-> w, prev |-> sessEmitAddr,
                             emitted |-> TRUE,
                             calledWith |-> IF callback # 0 THEN "details" ELSE "none"]
          /\ sessEmitAddr' = w
          /\ consumerAddr' = IF callback # 0 /\ PastWarmup(reason)
                             THEN w
                             ELSE consumerAddr
     ELSE /\ lastCapture' = [NoCapture EXCEPT !.reason = reason,
                              !.prev = sessEmitAddr,
                              !.calledWith = IF callback # 0 THEN "null" ELSE "none"]
          /\ UNCHANGED <<lastWindowAddress, lastWindowDetails, sessEmitAddr,
                         consumerAddr>>
  /\ UNCHANGED <<isRunning, callback, eventSocket, backupTimer, reconnectTimer,
                 debounceTimer, stabilizationTimer, pendingCaptureReason>>
  /\ UNCHANGED <<reconnectPending, backupPending, stabPending, debouncePending,
                 sockets, resolving>>
  /\ UNCHANGED <<tenv, sigCount, sinceSwitch>>
  /\ lastDebounce' = NoDebounce
  /\ suppressed' = FALSE
  /\ lastRecord' = "none"
  /\ TFrame

\* The compositor exits, or is started again (as a new instance).
CompositorToggle ==
  /\ hypr < MaxHypr
  /\ hypr' = hypr + 1
  /\ UNCHANGED <<cachedHyprlandInstanceSignature, envSignature>>
  /\ UNCHANGED <<tfields, truntime, tghost>>
  /\ NoStep(TRUE)
  /\ TFrame

TInit ==
  /\ isRunning = FALSE
  /\ callback = 0
  /\ eventSocket = 0
  /\ backupTimer = FALSE
  /\ reconnectTimer = FALSE
  /\ debounceTimer = 0
  /\ stabilizationTimer = 0
  /\ pendingCaptureReason = "null"
  /\ lastWindowAddress = 0
  /\ lastWindowDetails = NoDetails
  /\ reconnectPending = 0
  /\ backupPending = 0
  /\ stabPending = {}
  /\ debouncePending = {}
  /\ sockets = [s \in SockIds |-> NoSocket]
  /\ resolving = [c \in Callers |-> FALSE]
  /\ captures = [r \in Reasons |-> 0]
  /\ cachedHyprlandInstanceSignature = Undefined
  /\ envSignature \in {0, 1}
  /\ hypr \in IF envSignature = 1 THEN {1} ELSE {0, 1}
  /\ sigCount = 0
  /\ lastDebounce = NoDebounce
  /\ lastCapture = NoCapture
  /\ sessEmitAddr = 0
  /\ sinceSwitch = 0
  /\ consumerAddr = 0
  /\ suppressed = FALSE
  /\ lastRecord = "none"

\* The connection life cycle, with the compositor coming and going.
TNext ==
  \/ start
  \/ stop
  \/ \E caller \in Callers : connectToSocket(caller)
  \/ \E s \in SockIds : SocketConnect(s)
  \/ \E s \in SockIds : SocketError(s)
  \/ \E s \in SockIds : SocketClose(s)
  \/ ReconnectFire
  \/ BackupFire
  \/ \E reason \in Reasons, w \in Windows \cup {0} : captureCurrentWindow(reason, w)
  \/ CompositorToggle

\* Window switches and captures, with the compositor staying up.
CNext ==
  \/ start
  \/ stop
  \/ \E caller \in Callers : connectToSocket(caller)
  \/ \E s \in SockIds : SocketConnect(s)
  \/ \E s \in SockIds : SocketClose(s)
  \/ ReconnectFire
  \/ \E s \in SockIds : handleEvent(s, "activewindow")
  \/ \E k \in 1..MaxBurst : StabilizationFire(k)
  \/ \E k \in 1..MaxBurst : DebounceFire(k)
  \/ BackupFire
  \/ \E reason \in Reasons, w \in Windows \cup {0} : captureCurrentWindow(reason, w)

\* The records of the event socket, of every type.
ENext ==
  \/ start
  \/ stop
  \/ \E caller \in Callers : connectToSocket(caller)
  \/ \E s \in SockIds : SocketConnect(s)
  \/ \E s \in SockIds, eventType \in RecordTypes : handleEvent(s, eventType)
  \/ \E k \in 1..MaxBurst : StabilizationFire(k)
  \/ \E k \in 1..MaxBurst : DebounceFire(k)
  \/ \E reason \in Reasons, w \in Windows \cup {0} : captureCurrentWindow(reason, w)

\* Starting and stopping the components.
LNext ==
  \/ start
  \/ stop
  \/ \E caller \in Callers : connectToSocket(caller)
  \/ \E s \in SockIds : SocketConnect(s)
  \/ \E s \in SockIds : SocketClose(s)
  \/ BrowserStart
  \/ BrowserStop
  \/ ObserverStart
  \/ \E ok \in BOOLEAN : ObserverImport(ok)
  \/ \E ok \in BOOLEAN : ObserverConnectSystem(ok, TRUE)
  \/ \E ok \in BOOLEAN : ObserverConnectSession(ok, TRUE, FALSE)
  \/ ObserverStop
  \/ startActiveWindowObserver
  \/ stopActiveWindowObserver

\* One session that is started and never stopped.
RNext ==
  \/ start
  \/ \E caller \in Callers : connectToSocket(caller)
  \/ \E s \in SockIds : SocketConnect(s)
  \/ \E s \in SockIds : SocketError(s)
  \/ \E s \in SockIds : SocketClose(s)
  \/ ReconnectFire
  \/ \E reason \in Reasons, w \in Windows \cup {0} : captureCurrentWindow(reason, w)
  \/ CompositorToggle

\* Timers that are due fire, and awaited I/O and socket events complete.
RFair ==
  /\ WF_vars(ReconnectFire)
  /\ WF_vars(\E caller \in Callers : connectToSocket(caller))
  /\ WF_vars(\E s \in SockIds : SocketConnect(s))
  /\ WF_vars(\E s \in SockIds : SocketError(s))
  /\ WF_vars(\E s \in SockIds : SocketClose(s))
  /\ WF_vars(\E reason \in Reasons : captureCurrentWindow(reason, 0))

(***************************************************************************)
(* windowTracker.ts: handleSocketData (line framing)                       *)
(***************************************************************************)
MaxLen == 3
MaxConns == 2

\* Bytes of the event stream: "w" stands for the text of an activewindow record,
\* "x" for any other ASCII text, "sp" for a space, "nl" for the line feed, and
\* "hi" "lo" for the two bytes of one non-ASCII character (as in a window title).
AsciiBytes == {"w", "x", "nl"}
Bytes == AsciiBytes \cup {"sp", "hi", "lo"}
StreamsOver(alphabet) == UNION {[1..n -> alphabet] : n \in 0..MaxLen}

\* data.toString(): UTF-8 decoding of one chunk. A two-byte character whose bytes
\* are both in the chunk decodes to the character ("E"); a lead byte without its
\* continuation and a continuation without its lead decode to U+FFFD ("?").
RECURSIVE toString(_)
toString(data) ==
  IF data = <<>> THEN <<>>
  ELSE IF Head(data) = "hi"
       THEN IF Len(data) >= 2 /\ data[2] = "lo"
            THEN <<"E">> \o toString(SubSeq(data, 3, Len(data)))
            ELSE <<"?">> \o toString(Tail(data))
  ELSE IF Head(data) = "lo" THEN <<"?">> \o toString(Tail(data))
  ELSE <<Head(data)>> \o toString(Tail(data))

\* text.split('\n'): the segments between the line feeds (at least one).
RECURSIVE split(_)
split(text) ==
  IF \A i \in 1..Len(text) : text[i] # "nl" THEN <<text>>
  ELSE LET i == CHOOSE k \in 1..Len(text) :
                  text[k] = "nl" /\ \A j \in 1..(k - 1) : text[j] # "nl"
       IN <<SubSeq(text, 1, i - 1)>> \o split(SubSeq(text, i + 1, Len(text)))

\* line.trim()
RECURSIVE trim(_)
trim(line) ==
  IF line = <<>> THEN <<>>
  ELSE IF Head(line) = "sp" THEN trim(Tail(line))
  ELSE IF line[Len(line)] = "sp" THEN trim(SubSeq(line, 1, Len(line) - 1))
  ELSE line

\* for (const line of lines) if (line.trim()) this.handleEvent(line.trim())
RECURSIVE Handled(_)
Handled(lines) ==
  IF lines = <<>> THEN <<>>
  ELSE IF trim(Head(lines)) = <<>> THEN Handled(Tail(lines))
  ELSE <<trim(Head(lines))>> \o Handled(Tail(lines))

\* const [eventType] = event.split('>>')
LineType(line) == IF line = <<"w">> THEN "activewindow" ELSE "other"

\* handleSocketData(data) for the next n bytes of the connection.
handleSocketData(n) ==
  /\ n <= Len(fStream)
  /\ LET data == SubSeq(fStream, 1, n)
         lines == split(buffer \o toString(data))
     IN /\ buffer' = lines[Len(lines)]
        /\ fLines' = fLines \o Handled(SubSeq(lines, 1, Len(lines) - 1))
        /\ fWhole' = fWhole \o data
        /\ fStream' = SubSeq(fStream, n + 1, Len(fStream))
  /\ UNCHANGED fConn
  /\ FFrame

\* The socket closes with whatever it had not delivered, and a later
\* connectToSocket opens a new connection: neither the close handler nor
\* connectToSocket touches this.buffer. With `stopped`, stop() and start() ran in
\* between, and stop() assigned this.buffer = ''.
NewConnection(stream, stopped) ==
  /\ fConn < MaxConns
  /\ fConn' = fConn + 1
  /\ fStream' = stream
  /\ fWhole' = <<>>
  /\ fLines' = <<>>
  /\ buffer' = IF stopped THEN <<>> ELSE buffer
  /\ FFrame

FInit ==
  /\ buffer = <<>>
  /\ fStream = <<>>
  /\ fWhole = <<>>
  /\ fLines = <<>>
  /\ fConn = 1

\* One connection delivers a stream in chunks.
FNext ==
  \E n \in 1..MaxLen : handleSocketData(n)

\* Connections that follow one another, each delivering ASCII records in chunks.
GNext ==
  \/ \E n \in 1..MaxLen : handleSocketData(n)
  \/ \E stream \in StreamsOver(AsciiBytes), stopped \in BOOLEAN :
        NewConnection(stream, stopped)

(***************************************************************************)
(* Specifications                                                          *)
(***************************************************************************)
Init == QInit /\ WInit /\ PInit /\ TInit /\ BInit /\ SInit /\ OInit /\ FInit

\* The components a specification does not run stay in one fixed initial state.
Idle(w, pl, t) ==
  /\ w => wStart = Undefined
  /\ pl => checkCategorizationProvider
  /\ t => (envSignature = 0 /\ hypr = 0)

InitQueue == Init /\ Idle(TRUE, TRUE, TRUE)
SpecQueue == InitQueue /\ [][QNext]_vars

InitWrapper == Init /\ Idle(FALSE, TRUE, TRUE)
SpecWrapper == InitWrapper /\ [][WNext]_vars

InitPipeline == Init /\ Idle(TRUE, FALSE, TRUE)
SpecPipeline == InitPipeline /\ [][PNext]_vars

InitTracker == Init /\ Idle(TRUE, TRUE, FALSE)
SpecTracker == InitTracker /\ [][TNext]_vars

InitCapture == InitTracker /\ hypr = 1
SpecCapture == InitCapture /\ [][CNext]_vars

SpecRecords == InitCapture /\ [][ENext]_vars

SpecLifecycle == InitCapture /\ [][LNext]_vars

SpecReconnect == InitTracker /\ [][RNext]_vars /\ RFair

InitBrowser == Init /\ Idle(TRUE, TRUE, TRUE)
SpecBrowser == InitBrowser /\ [][BNext]_vars

InitScreenshot == Init /\ Idle(TRUE, TRUE, TRUE)
SpecOcr == InitScreenshot /\ [][ONext]_vars
SpecCleanup == InitScreenshot /\ [][KNext]_vars

InitIndex ==
  /\ QInitAnyIndex /\ WInit /\ PInit /\ TInit /\ BInit /\ SInit /\ OInit /\ FInit
  /\ Idle(TRUE, TRUE, TRUE)
\* Index updates only.
INext ==
  \/ \E f \in Folders, ts \in Timestamps : enqueueFolderWrite(f, "meta", ts)
  \/ \E id \in OpIds : OpBegin(id)
  \/ \E id \in OpIds : MetaRead(id)
  \/ \E id \in OpIds : MetaWrite(id)
  \/ \E id \in OpIds : OpCleanup(id)
SpecIndex == InitIndex /\ [][INext]_vars

\* The first connection may deliver any stream.
InitFraming ==
  /\ QInit /\ WInit /\ PInit /\ TInit /\ BInit /\ SInit /\ OInit
  /\ Idle(TRUE, TRUE, TRUE)
  /\ buffer = <<>> /\ fWhole = <<>> /\ fLines = <<>> /\ fConn = 1
  /\ fStream \in StreamsOver(Bytes)
SpecFraming == InitFraming /\ [][FNext]_vars

InitRefill ==
  /\ QInit /\ WInit /\ PInit /\ TInit /\ BInit /\ SInit /\ OInit
  /\ Idle(TRUE, TRUE, TRUE)
  /\ buffer = <<>> /\ fWhole = <<>> /\ fLines = <<>> /\ fConn = 1
  /\ fStream \in StreamsOver(AsciiBytes)
SpecRefill == InitRefill /\ [][GNext]_vars

InitObserver == Init /\ Idle(TRUE, TRUE, TRUE)
SpecObserver == InitObserver /\ [][VNext]_vars

(***************************************************************************)
(* Properties of the metadata write queue (SpecQueue)                      *)
(***************************************************************************)
MetaOps(f) == {id \in OpIds : qOps[id].folder = f /\ qOps[id].kind = "meta"}
InCycle(f) == {id \in MetaOps(f) : qOps[id].st \in {"reading", "writing"}}
Written(f) == {id \in MetaOps(f) : qOps[id].st = "fulfilled"}
IsSortedByTimestamp(s) ==
  \A i \in 1..Len(s), j \in 1..Len(s) : i < j => s[i].timestamp <= s[j].timestamp

C4_StartInSubmissionOrder ==
  \A i \in OpIds, j \in OpIds :
    (i < j /\ qOps[j].kind # "none" /\ qOps[i].folder = qOps[j].folder
       /\ qOps[j].ran) => Settled(i)

\* An operation queued behind a pending one has started.
C4_Witness ==
  \E j \in OpIds : qOps[j].prev # 0 /\ qOps[j].ran /\ qOps[qOps[j].prev].ran

\* C10: a failed operation does not poison the queue: the promise of an operation
\* rejects only if that operation itself ran and failed, and every operation whose
\* promise has settled did run, after the operations queued before it.
C10_FailureIsolated ==
  \A j \in OpIds :
    /\ Settled(j) => qOps[j].ran
    /\ (qOps[j].prev # 0 /\ qOps[j].ran) => Settled(qOps[j].prev)

\* An operation failed and the one queued behind it ran and fulfilled.
C10_Witness ==
  \E j \in OpIds :
    /\ qOps[j].prev # 0
    /\ qOps[qOps[j].prev].st = "rejected"
    /\ qOps[j].st = "fulfilled" /\ qOps[j].cleaned

\* The operations of folder f whose promise (with its cleanup) has not settled.
Unsettled(f) == {id \in OpIds : qOps[id].folder = f /\ ~qOps[id].cleaned}

\* C11: the queue map has an entry for a folder exactly while the promise of some
\* operation of the folder is unsettled, and the entry is then the operation
\* submitted last: the cleanup of an earlier operation leaves it in place.
C11_EntryWhilePending ==
  \A f \in Folders :
    /\ metadataWriteQueueByFolder[f] # 0 <=> Unsettled(f) # {}
    /\ \A id \in Unsettled(f) : id <= metadataWriteQueueByFolder[f]

\* An earlier operation has been cleaned up while a later one of the folder is
\* still queued or running, and the entry is the later one.
C11_Witness ==
  \E i \in OpIds, j \in OpIds :
    /\ qOps[j].prev = i
    /\ qOps[i].cleaned
    /\ ~Settled(j)
    /\ metadataWriteQueueByFolder[qOps[j].folder] = j

(***************************************************************************)
(* Properties of the stabilizing wrapper (SpecWrapper)                     *)
(***************************************************************************)
\* The events of wArrivals a correct wrapper passes on: those arriving at an
\* elapsed time of at least the period.
RECURSIVE Qualifying(_)
Qualifying(arr) ==
  IF arr = <<>> THEN <<>>
  ELSE LET rest == Qualifying(SubSeq(arr, 1, Len(arr) - 1))
           last == arr[Len(arr)]
       IN IF last.at - wStart >= TRACKER_STABILIZATION_PERIOD_MS
          THEN Append(rest, last.details)
          ELSE rest

\* C2: with a defined start, an event arriving at elapsed < period causes no
\* invocation of callback, an event arriving at elapsed >= period (equal included)
\* exactly one, with that event: the callback has received exactly the qualifying
\* events, in order.
C2_WarmupGate ==
  wStart # Undefined => wCalls = Qualifying(wArrivals)

\* Events arrived just before, exactly at and after the period; the first was
\* dropped and the other two passed on.
C2_Witness ==
  /\ wStart = 1
  /\ Len(wArrivals) = 3
  /\ wArrivals[1].at = 10000 /\ wArrivals[2].at = 10001 /\ wArrivals[3].at = 15000
  /\ Len(wCalls) = 2

\* C29: with trackerStartTime undefined every event counts as stabilized: each
\* event handed to the wrapper causes one invocation of callback with that event,
\* whatever the clock reads.
C29_NoStartTimePassesAll ==
  wStart = Undefined =>
     /\ Len(wCalls) = Len(wArrivals)
     /\ \A i \in 1..Len(wArrivals) : wCalls[i] = wArrivals[i].details

\* Without a start time, events at the first instant, inside what would be the
\* period, and after it were all passed on.
C29_Witness ==
  /\ wStart = Undefined
  /\ Len(wArrivals) = 3
  /\ wArrivals[1].at = 0 /\ wArrivals[2].at = 9999 /\ wArrivals[3].at = 15000
  /\ Len(wCalls) = 3

(***************************************************************************)
(* Properties of the capture orchestrator (SpecPipeline)                   *)
(***************************************************************************)
\* C8: events reach the consumer in the order in which innerCallback received
\* them, whatever the durations of enrichment, the already-known query and OCR.
C8_ArrivalOrderPreserved ==
  \A i \in 1..Len(pDelivered), j \in 1..Len(pDelivered) :
    i < j => pDelivered[i] < pDelivered[j]

(***************************************************************************)
(* Claims about the window tracker                                         *)
(***************************************************************************)
\* The socket the tracker holds is connected.
Connected == eventSocket # 0 /\ sockets[eventSocket].st = "open"

\* A socket exists that is connecting or connected.
LiveSocket == \E s \in SockIds : sockets[s].st \in {"connecting", "open"}

\* C1: a burst of window-switch signals, each arriving before the debounce armed by
\* the previous one has elapsed, has exactly one timer pending while it lasts (the one
\* of its last signal), the only debounce that fires is the one of its last signal
\* and it ends the burst, and the capture that follows is emitted tagged app_switch
\* with the window the query reports then.
C1_OneCapturePerBurst ==
  /\ sigCount > 0 => /\ stabPending \cup debouncePending = {sigCount}
                     /\ stabPending \cap debouncePending = {}
  /\ sigCount = 0 => stabPending = {} /\ debouncePending = {}
  /\ lastDebounce # NoDebounce => lastDebounce.sig = lastDebounce.len
  /\ (lastCapture.reason = "app_switch" /\ lastCapture.answer # 0) =>
        /\ lastCapture.emitted
        /\ lastWindowDetails = [address |-> lastCapture.answer,
                                captureReason |-> "app_switch"]

C1_Witness ==
  /\ isRunning
  /\ Connected
  /\ lastDebounce.len > 1
  /\ lastDebounce.sig = lastDebounce.len
  /\ captures["app_switch"] = 1
  /\ sigCount = 0

\* C5: at most one reconnect timeout is pending, it is the one the handle holds, and
\* a scheduleReconnect call made while it is pending arms nothing.
C5_SingleReconnectTimer ==
  /\ reconnectPending <= 1
  /\ reconnectTimer <=> reconnectPending = 1
  /\ suppressed => reconnectPending = 1

C5_Witness ==
  /\ suppressed
  /\ isRunning
  /\ reconnectPending = 1
  /\ ~LiveSocket

\* C6: while the tracker is stopped no timer is pending and no socket is connecting
\* or connected.
C6_StoppedLeavesNothing ==
  ~isRunning => /\ reconnectPending = 0
                /\ backupPending = 0
                /\ stabPending = {}
                /\ debouncePending = {}
                /\ ~LiveSocket

\* C7: if from some point on the tracker runs and the compositor socket is reachable,
\* the tracker is connected again and again.
C7_EventuallyConnected ==
  <>[](isRunning /\ HyprSig # 0) => []<>Connected

C14_StoppedClearsLastSeen ==
  ~isRunning => lastWindowAddress = 0 /\ lastWindowDetails = NoDetails

(***************************************************************************)
(* Claims about the pipeline of innerCallback                              *)
(***************************************************************************)
\* C12: after stopActiveWindowObserver() the processing that was in flight ends
\* as a no-op: no invocation of innerCallback ends in a rejected promise at the
\* hand-over to the consumer.
C12_StopIsQuiet ==
  \A id \in EventIds : pEvents[id].pc # "rejected"

\* C13: the consumer of the latest start receives only events captured by the
\* session of that start: an event handed to the consumer in this step was not in
\* flight when the latest startActiveWindowObserver ran.
C13_OnlyLatestSession ==
  pStep.details = "details" => ~pEvents[pStep.id].stale

\* C15: when the provider answers categorized with content, OCR does not run for
\* the event, and the event handed to the consumer carries the provider's content.
C15_ReuseSkipsOcr ==
  (pStep.op = "provider" /\ pStep.input = "categorized_content") =>
     /\ ~pStep.ocrRan
     /\ pEvents[pStep.id].pc # "ocr"
     /\ pStep.content = "provider"
     /\ (windowCallback # 0 =>
           /\ pStep.details = "details"
           /\ pEvents[pStep.id].pc = "delivered")

C15_Witness ==
  /\ pStep.op = "provider"
  /\ pStep.input = "categorized_content"
  /\ pStep.details = "details"
  /\ pStep.content = "provider"

NoDuplicates(seq) ==
  \A i, j \in 1..Len(seq) : seq[i] = seq[j] => i = j

\* C16: the already-known query is fail-open: without a provider, or when the
\* provider throws or answers not categorized, the event goes on to OCR; the OCR
\* step hands the event to the consumer that is present, after OCR ran, and no
\* event is handed over twice.
C16_FailOpen ==
  /\ (pStep.op = "provider" /\ pStep.input \in {"not_categorized", "throws"}) =>
        (pEvents[pStep.id].pc = "ocr" /\ pStep.details = "none")
  /\ (pStep.op = "permissions" /\ pStep.input = "granted"
        /\ ~checkCategorizationProvider) =>
        (pEvents[pStep.id].pc = "ocr" /\ pStep.details = "none")
  /\ (pStep.op = "ocr" /\ windowCallback # 0) =>
        /\ pStep.ocrRan
        /\ pStep.details = "details"
        /\ pEvents[pStep.id].pc = "delivered"
        /\ pDelivered[Len(pDelivered)] = pStep.id
  /\ NoDuplicates(pDelivered)

C16_Witness ==
  /\ checkCategorizationProvider
  /\ pStep.op = "ocr"
  /\ pStep.ocrRan
  /\ pStep.details = "details"
  /\ pEvents[pStep.id].pc = "delivered"

\* C17: contentSource tells reused content from fresh content: an event handed
\* over with the provider's content does not carry the tag of a fresh OCR run, and
\* an event without content carries no tag.
C17_SourceTellsReuse ==
  pStep.details = "details" =>
     /\ (pStep.content = "provider" => pStep.contentSource # FreshSource)
     /\ (pStep.content = "null" => pStep.contentSource = "null")

\* C18: when the provider answers categorized without content, OCR is skipped:
\* the event does not go on to OCR.
C18_CategorizedNoContentSkipsOcr ==
  (pStep.op = "provider" /\ pStep.input = "categorized_nocontent") =>
     pEvents[pStep.id].pc # "ocr"

\* C20: enrichment is a no-op for events that are not browser events: only a
\* browser event carries a url, only a browser event waits for the enrichment, and
\* the only result enrichWithBrowserUrl has for a window or system event is the
\* unchanged input.
C20_UrlOnlyForBrowser ==
  /\ \A id \in EventIds :
       /\ pEvents[id].url => pEvents[id].kind = "browser"
       /\ pEvents[id].pc \in {"enrich", "threw"} => pEvents[id].kind = "browser"
  /\ (pStep.op = "enrich" /\ pEvents[pStep.id].kind # "browser") =>
        pStep.input = "unchanged"
  /\ \A kind \in DetailKinds \ {"browser"} : EnrichResults(kind) = {"unchanged"}

C20_Witness ==
  /\ \E id \in EventIds :
       /\ pEvents[id].kind = "browser"
       /\ pEvents[id].pc = "delivered"
       /\ pEvents[id].url
  /\ \E id \in EventIds :
       /\ pEvents[id].kind \in {"window", "system"}
       /\ pEvents[id].pc = "delivered"
       /\ ~pEvents[id].url

(***************************************************************************)
(* Claims about BrowserTracker                                             *)
(***************************************************************************)
\* C19: enrichWithBrowserUrl never throws, and when the strategy fails (file
\* missing, malformed or stale; endpoint absent, timing out, non-OK or
\* malformed) it returns the input with url unset.
C19_EnrichFailSoft ==
  bLast.strategy # "none" =>
     /\ bLast.result # "threw"
     /\ (\/ bLast.input \in {"missing", "not_json", "no_url", "no_timestamp",
                             "absent", "timeout", "non_ok", "malformed"}
         \/ (bLast.input = "complete" /\ bLast.age > URL_MAX_AGE_MS)) =>
           bLast.result = "unchanged"

\* C21: with the hand-off file, a browser event gets the file's url exactly when
\* the file parses and its age is at most 15 s (a file without a timestamp has
\* no age and is left out).
C21_EnrichedIffFresh ==
  (bLast.strategy = "file" /\ bLast.kind = "browser" /\ bLast.running
     /\ bLast.input # "no_timestamp") =>
     (bLast.result = "url" <=>
        (bLast.input \notin {"missing", "not_json"} /\ bLast.age <= 15000))

(***************************************************************************)
(* Claims about ScreenshotManager                                          *)
(***************************************************************************)
\* C22: captureAndOCR returns a result in every case: when the screenshot was
\* captured and saved and tesseract fails, times out or overflows, the result is
\* success with the image path and ocrText undefined; when grim fails the result
\* is a failure with an error and neither image nor index entry is written.
C22_OcrFailureIsNotFailure ==
  sLast.op = "capture" =>
     /\ sLast.success # sLast.error
     /\ (sLast.ocr \in {"error", "timeout", "overflow"}) =>
           (sLast.success /\ sLast.imagePath /\ sLast.ocrText = "undefined"
              /\ sLast.wroteImage)
     /\ (sLast.grim = "fails") =>
           (~sLast.success /\ sLast.error /\ ~sLast.imagePath
              /\ ~sLast.wroteImage /\ ~sLast.wroteEntry)

C22_Witness ==
  /\ sLast.op = "capture"
  /\ sLast.ocr = "timeout"
  /\ sLast.success
  /\ sLast.imagePath
  /\ sLast.ocrText = "undefined"

\* C23: resolveTessdataEnv sets the dataset override exactly when the fast
\* dataset file is present and readable.
C23_OverrideIffReadable ==
  sLast.op = "resolve" =>
     (sLast.env = "tessdata_fast" <=> sLast.tessdata = "readable")

\* C24: cleanupOldScreenshots(keepDays) removes exactly the folders dated before
\* today minus keepDays whose removal did not fail, leaves the others, and
\* returns the number it removed.
C24_PrunesStrictlyOlder ==
  sLast.op = "cleanup" =>
     LET old == {d \in sLast.before : d < today - sLast.keepDays} IN
     /\ sLast.failed \subseteq old
     /\ dateFolders = sLast.before \ (old \ sLast.failed)
     /\ sLast.returned = Cardinality(old \ sLast.failed)

C24_Witness ==
  /\ sLast.op = "cleanup"
  /\ sLast.keepDays = 7
  /\ today >= 10
  /\ sLast.before = {today, today - 3, today - 10}
  /\ dateFolders = {today, today - 3}
  /\ sLast.returned = 1

(***************************************************************************)
(* More claims about the pipeline of innerCallback                         *)
(***************************************************************************)
\* C25: a failed capture (null) that enters innerCallback while a consumer
\* observes is handed to the consumer as null in that same step, once, and never
\* waits for enrichment, permissions, the already-known query or OCR.
C25_NullGoesStraightThrough ==
  /\ \A id \in EventIds :
       pEvents[id].kind = "null" =>
          pEvents[id].pc \in {"none", "dropped", "delivered"}
  /\ (pStep.op = "enter" /\ pEvents[pStep.id].kind = "null"
        /\ isObserving /\ windowCallback # 0) =>
        /\ pEvents[pStep.id].pc = "delivered"
        /\ pStep.details = "null"
        /\ ~pStep.ocrRan
        /\ pDelivered[Len(pDelivered)] = pStep.id
        /\ \A i \in 1..(Len(pDelivered) - 1) : pDelivered[i] # pStep.id

C25_Witness ==
  /\ pStep.op = "enter"
  /\ pEvents[pStep.id].kind = "null"
  /\ pStep.details = "null"
  /\ pEvents[pStep.id].pc = "delivered"

\* C28: an event handed to the consumer has a screenshot path only if
\* captureAndOCR ran for it and saved an image, and has content only if that OCR
\* run returned text or the provider answered categorized with content.
C28_ContentOnlyFromItsSource ==
  pStep.details = "details" =>
     /\ pStep.localScreenshotPath =>
           (pStep.op = "ocr" /\ pStep.ocrRan /\ pStep.input = "text")
     /\ pStep.content # "null" =>
           \/ (pStep.content = "ocr" /\ pStep.op = "ocr" /\ pStep.input = "text")
           \/ (pStep.content = "provider" /\ pStep.op = "provider"
                 /\ pStep.input = "categorized_content")

C28_Witness ==
  /\ pStep.details = "details"
  /\ pStep.localScreenshotPath
  /\ pStep.content = "ocr"
  /\ pStep.input = "text"

(***************************************************************************)
(* More claims about the tracker                                           *)
(***************************************************************************)
\* C26: the socket-path resolution is cached exactly when discovery succeeded: the
\* cache never holds the null of a discovery that found no socket, so that the
\* next resolution scans again.
C26_CachedOnlyOnSuccess ==
  cachedHyprlandInstanceSignature # 0

TrackerStopped ==
  /\ ~isRunning /\ eventSocket = 0 /\ callback = 0
  /\ ~backupTimer /\ ~reconnectTimer
  /\ debounceTimer = 0 /\ stabilizationTimer = 0
  /\ lastWindowAddress = 0 /\ lastWindowDetails = NoDetails
  /\ pendingCaptureReason = "null"

ObserverStopped ==
  /\ ~obsIsRunning /\ obsCallback = 0
  /\ systemBus = "null" /\ sessionBus = "null"

NativeStopped == ~isObserving /\ windowCallback = 0

C31_SystemEventShape ==
  obsEmitted # NoSystemEvent =>
    LET e == obsEmitted.event
        t == obsEmitted.signal
    IN /\ e.type = "system" /\ e.windowId = 0 /\ e.durationMs = 0
       /\ <<t, e.ownerName, e.title>> \in
             {<<"sleep", "System Sleep", "Computer going to sleep">>,
              <<"wake", "System Wake", "Computer woke from sleep">>,
              <<"lock", "System Lock", "Screen was locked">>,
              <<"unlock", "System Unlock", "Screen was unlocked">>}
       /\ t \in {"sleep", "lock"} => e.captureReason = "system_sleep"
       /\ t \in {"wake", "unlock"} => e.captureReason = "system_wake"

C31_Witness ==
  /\ obsEmitted.signal = "unlock"
  /\ obsEmitted.calledBack
  /\ obsEmitted.event.captureReason = "system_wake"
  /\ "gnome" \in subscriptions

\* C32: a start whose bus library failed to load, or whose bus connection or
\* subscription failed, returns normally with the observer marked running; a
\* connectSessionBus call subscribes at most one screen saver interface, the GNOME
\* one only when the freedesktop one was unavailable, and none when the session
\* bus could not be opened.
C32_BusFailureTolerated ==
  /\ obsLast = "start_resolved" => obsStarting = "idle"
  /\ obsTried.made =>
       /\ obsLast = "start_resolved"
       /\ Cardinality(obsTried.subscribed) <= 1
       /\ obsTried.subscribed \subseteq subscriptions
       /\ ("gnome" \in obsTried.subscribed) <=>
             (obsTried.bus /\ ~obsTried.freedesktop /\ obsTried.gnome)
       /\ ("freedesktop" \in obsTried.subscribed) <=>
             (obsTried.bus /\ obsTried.freedesktop)

C32_Witness ==
  /\ obsTried.made /\ obsTried.bus
  /\ ~obsTried.freedesktop /\ obsTried.gnome
  /\ obsTried.subscribed = {"gnome"}
  /\ subscriptions = {"gnome"}
  /\ systemBus = "null"
  /\ obsIsRunning

\* C33: a window-switch signal leaves exactly one timer pending, the stabilization
\* timer it armed, and no debounce timer; a debounce that fires does so at least
\* STABILIZATION_DELAY_MS + DEBOUNCE_DELAY_MS after the most recent signal.
C33_SwitchRestartsWait ==
  /\ lastRecord = "activewindow" =>
       /\ stabPending = {stabilizationTimer}
       /\ stabilizationTimer = sigCount /\ sigCount > 0
       /\ debouncePending = {} /\ debounceTimer = 0
       /\ sinceSwitch = 0
  /\ lastDebounce # NoDebounce =>
       lastDebounce.elapsed >= STABILIZATION_DELAY_MS + DEBOUNCE_DELAY_MS

C33_Witness ==
  /\ lastRecord = "activewindow"
  /\ sigCount = 2
  /\ stabPending = {2}
  /\ isRunning /\ Connected

\* C34: whatever metadata.json held before, once an updateMetadata call has
\* completed the index holds the entry of that call, and it is ascending by
\* timestamp.
C34_IndexAppendOnlySorted ==
  \A f \in Folders :
    /\ \A id \in Written(f) :
         \E i \in 1..Len(disk[f]) :
            disk[f][i] = [timestamp |-> qOps[id].ts, filename |-> id]
    /\ Written(f) # {} => IsSortedByTimestamp(disk[f])

\* What handleSocketData hands on and keeps when the bytes arrive as one chunk.
OneChunk(stream) ==
  LET lines == split(toString(stream))
  IN [handled |-> Handled(SubSeq(lines, 1, Len(lines) - 1)),
      kept |-> lines[Len(lines)]]

\* The activewindow records among the lines handed to handleEvent.
Activations(lines) == SelectSeq(lines, LAMBDA l : IsWindowActivation(LineType(l)))

\* C35: the activewindow lines handled on the current connection are the complete
\* activewindow lines that connection delivered, whatever an earlier connection
\* left unterminated.
C35_RecordsSurviveReconnect ==
  Activations(fLines) = Activations(OneChunk(fWhole).handled)

\* C36: once a connection has delivered its stream, whatever the chunks were, the
\* lines handed to handleEvent and the text kept in the buffer are those of the
\* stream delivered as one chunk.
C36_FramingIgnoresChunking ==
  fStream = <<>> =>
    /\ fLines = OneChunk(fWhole).handled
    /\ buffer = OneChunk(fWhole).kept

\* The sockets whose data handler can still call handleSocketData.
LiveSockets == {s \in SockIds : sockets[s].st \in {"connecting", "open"}}

\* C37: at most one socket is connecting or connected, and it is the one the
\* tracker holds: a socket replaced by a later connection attempt is not live.
C37_SingleLiveSocket ==
  /\ Cardinality(LiveSockets) <= 1
  /\ \A s \in LiveSockets : eventSocket = s

\* C38: when a periodic backup has found a focused window while the tracker runs,
\* the consumer behind the warm-up wrapper has received an event describing that
\* window, from that capture or from an earlier one.
C38_BackupReachesConsumer ==
  (lastCapture.reason = "periodic_backup" /\ lastCapture.answer # 0 /\ callback # 0)
     => consumerAddr = lastCapture.answer

\* The timeouts of the switch path that are pending.
SwitchTimers == stabPending \cup debouncePending

\* C39: the stabilization timer and the debounce timer are never both pending (as
\* handles and as timeouts); while the tracker runs pendingCaptureReason is
\* non-null exactly when one of them is pending; and once stop() has run, while
\* the tracker stays stopped, both timers and pendingCaptureReason are null.
C39_TimersExclusive ==
  /\ stabilizationTimer = 0 \/ debounceTimer = 0
  /\ Cardinality(SwitchTimers) <= 1
  /\ SwitchTimers = {stabilizationTimer, debounceTimer} \ {0}
  /\ isRunning => (pendingCaptureReason # "null" <=> SwitchTimers # {})
  /\ ~isRunning => /\ stabilizationTimer = 0 /\ debounceTimer = 0
                   /\ SwitchTimers = {}
                   /\ pendingCaptureReason = "null"

\* The same with the last part read at the return of stop() only.
C39_TimersExclusiveAtStop ==
  /\ [](/\ stabilizationTimer = 0 \/ debounceTimer = 0
        /\ Cardinality(SwitchTimers) <= 1
        /\ SwitchTimers = {stabilizationTimer, debounceTimer} \ {0}
        /\ isRunning => (pendingCaptureReason # "null" <=> SwitchTimers # {}))
  /\ [][stop => /\ stabilizationTimer' = 0 /\ debounceTimer' = 0
                /\ SwitchTimers' = {}
                /\ pendingCaptureReason' = "null"]_vars

\* C40: an event the tracker emits is tagged periodic_backup when the periodic
\* backup timer triggered its capture and app_switch when the capture was the one
\* made at start or a debounced one; no other tag occurs.
C40_CaptureReasonTaxonomy ==
  /\ lastWindowDetails # NoDetails =>
       lastWindowDetails.captureReason \in {"app_switch", "periodic_backup"}
  /\ lastCapture.emitted =>
       /\ lastCapture.reason \in Reasons
       /\ (lastWindowDetails.captureReason = "periodic_backup")
             <=> (lastCapture.reason = "periodic_backup")
       /\ lastCapture.reason \in {"initial", "app_switch"} =>
             lastWindowDetails.captureReason = "app_switch"

C40_Witness ==
  /\ lastCapture.reason = "initial"
  /\ lastCapture.emitted
  /\ lastCapture.calledWith = "details"
  /\ lastWindowDetails.captureReason = "app_switch"

====
